---- MODULE Spec2Model ----
(***************************************************************************)
(* A model of the scene runtime core of godot-explorer:                    *)
(*   - HttpQueueRequester (lib/src/http_request/http_queue_requester.rs):  *)
(*     the priority queue, the permit pool and the dispatch attempts;      *)
(*   - scene_thread (dcl/js/mod.rs): the life of one scene thread;         *)
(*   - create_runtime and op_require (dcl/js/mod.rs): the ops of the       *)
(*     engine and the modules a script may require;                        *)
(*   - spawn_new_js_dcl_scene (dcl/mod.rs): the renderer-to-scene channels;*)
(*   - RpcResultSender (common/rpc.rs): the single-use reply slot;         *)
(*   - CommunicationManager (comms/communication_manager.rs): the          *)
(*     connection state and the selection of the adapter.                  *)
(* The components share no state, so each has its own next-state relation  *)
(* and specification (HttpSpec, SceneSpec, BridgeSpec, MailboxSpec,        *)
(* RpcSpec, CommsSpec); Spec composes them.                                *)
(***************************************************************************)
EXTENDS Integers, Sequences, FiniteSets, TLC

(***************************************************************************)
(* Bounds of the model.                                                    *)
(***************************************************************************)
\* concurrent callers of request(); each submits one job
NumCallers == 2
\* max_parallel_requests is drawn from 0..MaxParallel
MaxParallel == 2
\* capacity of the bounded channel behind NetworkInspectorSender
InspectorCap == 1

\* ticks of the scene loop that are explored
MaxTicks == 2
\* SystemTime::now() reads a value in 0..MaxClock
MaxClock == 2
\* messages in the persisted snapshot (main.crdt)
MaxSnapshotLen == 2
\* capacity of the sync_channel behind thread_sender_to_main
MainChanCap == 1
\* log records a scene buffers
MaxLogs == 1

\* op sets handed to create_runtime() (eleven in the source)
NumOpSets == 2
\* calls of op_require after the loader's
MaxRequires == 3
\* scenes spawned by the renderer
NumScenes == 2
\* messages the renderer sends to one scene
MaxMessages == 2

\* clones of one RpcResultSender, each used by one thread
NumRpcClones == 2
\* calls made on the clones and on a taken sender
MaxRpcOps == 3
\* last_position_broadcast_index is explored up to MaxBroadcastIndex
MaxBroadcastIndex == 2
\* calls waiting in the engine's queue of deferred calls
MaxDeferred == 1

Callers == 1..NumCallers

\* caller-assigned priorities (smaller is served first)
Priorities == {1, 10}

\* ResponseType (request_response.rs, used at :226-:249)
ResponseTypes == {"AsString", "AsBytes", "ToFile", "AsJson"}

\* the response types caller c draws from: the first caller from all of
\* them, the others send text requests
ResponseTypesOf(c) == IF c = 1 THEN ResponseTypes ELSE {"AsString"}

VARIABLES
    \* ---- HttpQueueRequester ----
    max_parallel_requests,  \* the argument of new()
    inspect_enable,         \* NETWORK_INSPECTOR_ENABLE
    inspector_sender,       \* self.inspector_sender: "Some" or "None"
    sinkLen,                \* events waiting in the inspection channel
    sinkClosed,             \* the inspection channel's receiver is gone
    queue,                  \* self.queue: the jobs in the BinaryHeap
    semaphore,              \* self.semaphore: available permits
    job,                    \* job[c]: the QueueRequest caller c built
    callerPc,               \* where caller c is in request()
    taskPc,                 \* where the attempt spawned by caller c is
    cur,                    \* cur[t]: the job attempt t popped (0: none)
    response_result,        \* response_result[t]: what process_request gave
    reply,                  \* reply[c]: the value in c's oneshot channel
    \* ---- history (observation only) ----
    netOutcome,             \* netOutcome[c]: what the network did for job c
    netCalls,               \* netCalls[c]: network calls made for job c
    sendCount,              \* sendCount[c]: response_sender.send calls for c
    pushOrder,              \* jobs in the order they were pushed
    resolveOrder,           \* jobs in the order their reply was resolved
    pushedAtPop             \* pushedAtPop[c]: jobs pushed when c was popped

httpVars == <<max_parallel_requests, inspect_enable, inspector_sender, sinkLen,
              sinkClosed, queue, semaphore, job, callerPc, taskPc, cur,
              response_result, reply, netOutcome, netCalls, sendCount,
              pushOrder, resolveOrder, pushedAtPop>>

VARIABLES
    \* ---- scene_thread ----
    scenePc,                \* where the scene thread is in scene_thread()
    local_main_crdt_file_path, \* "" or the path of main.crdt
    main_crdt_file,         \* FileAccess::open of it: found or not, its messages
    main_js_file,           \* FileAccess::open of the main script: "None"/"Some"
    scene_crdt,             \* the SceneCrdtState behind SharedSceneCrdtState
    scene_crdt_lock,        \* its Mutex: "free", "scene_thread" or "poisoned"
    dirty,                  \* :133 the dirty state taken from the store
    toMain,                 \* thread_sender_to_main: responses not yet received
    rendererGone,           \* the receiver of thread_sender_to_main was dropped
    VM_HANDLES,             \* the scene ids with a registered IsolateHandle
    SceneLogs,              \* buffered log records (their number)
    SceneDying,             \* the SceneDying flag of the op state
    start_time,             \* :258
    elapsed,                \* :259
    dt,                     \* :262 of the tick in progress
    \* ---- history (observation only) ----
    sendLog,                \* responses the thread sent, in order
    sendTried,              \* responses the thread handed to send(), in order
    terminate_requested,    \* terminate_execution() was called on the handle
                            \* of VM_HANDLES by another thread
    terminated,             \* :310 the thread called terminate_execution()
    logsTaken,              \* :307 the records taken from SceneLogs
    exitPath,               \* why the thread left its normal course
    loopEndLogs,            \* the records buffered when the loop ended
    jsOpened,               \* the main script file was opened (:148)
    scriptRan,              \* script code has been executed
    ticks,                  \* ticks started
    nowLog,                 \* the clock readings of the loop, in order
    prevElapsed             \* elapsed before the latest tick

sceneArgs == <<local_main_crdt_file_path, main_crdt_file, main_js_file>>
crdtVars == <<scene_crdt, scene_crdt_lock, dirty>>
chanVars == <<toMain, rendererGone, sendLog, sendTried>>
opVars == <<VM_HANDLES, SceneLogs, SceneDying>>
clockVars == <<start_time, elapsed, dt, ticks, nowLog, prevElapsed>>
histVars == <<jsOpened, scriptRan>>
lifeVars == <<terminate_requested, terminated, logsTaken, exitPath, loopEndLogs>>

sceneVars == <<scenePc, sceneArgs, crdtVars, chanVars, opVars, clockVars,
               histVars, lifeVars>>

VARIABLES
    \* ---- create_runtime and the op state ----
    bridgePc,               \* where create_runtime() is; "runtime" once built
    op_sets,                \* the op sets: op_sets[k] are the names set k declares
    setIdx,                 \* the op set the loop of :68-:73 is at
    op_map,                 \* op_map[name]: the set whose op is stored (0: none)
    ext_ops,                \* the ops declared to the extension, in order
    runtime_ops,            \* the ops of the built runtime, after the middleware
    SceneJsFileContent,     \* the op state's slot of the scene code
    enable_know_env,        \* SceneEnv.enable_know_env
    required,               \* the latest call of op_require and its result
    requireCount,           \* calls of op_require made
    \* ---- history (observation only) ----
    replaced                \* names whose op_map entry was overwritten

bridgeVars == <<bridgePc, op_sets, setIdx, op_map, ext_ops, runtime_ops,
                SceneJsFileContent, enable_know_env, required, requireCount,
                replaced>>

VARIABLES
    \* ---- the renderer-to-scene channels ----
    scenes,                 \* the scene ids spawned so far
    capacity,               \* capacity[s]: of the channel made for scene s
    mailbox,                \* mailbox[s]: messages sent and not yet received
    senderPc,               \* senderPc[s]: "idle", or "sending" in send().await
    sending,                \* sending[s]: the message of the send in progress
    \* ---- history (observation only) ----
    accepted,               \* accepted[s]: sends the channel of s completed
    received                \* received[s]: messages scene s received

mailboxVars == <<scenes, capacity, mailbox, senderPc, sending, accepted,
                 received>>

VARIABLES
    \* ---- RpcResultSender ----
    rpc_slot,               \* the Option behind the RwLock: "Some" or "None"
    rpc_taken,              \* the clones holding the oneshot sender they took
    rpc_receiver_gone,      \* the oneshot receiver was dropped
    rpc_delivered,          \* the values the receiver was given, in order
    rpcPc,                  \* rpcPc[h]: "ready", or "panic" once h's thread panicked
    \* ---- history (observation only) ----
    rpc_log                 \* the calls made, in order, with their outcome

rpcVars == <<rpc_slot, rpc_taken, rpc_receiver_gone, rpc_delivered, rpcPc,
             rpc_log>>

VARIABLES
    \* ---- CommunicationManager ----
    current_connection,     \* the CommsConnection
    current_connection_str, \* the descriptor of the current adapter
    last_position_broadcast_index,
    identity_connected,     \* player_identity.is_connected()
    deferred,               \* the calls made with call_deferred, not yet run
    \* ---- history (observation only) ----
    lastCall,               \* the latest call of a method and what it did
    polledAfterComplete     \* a signed login was polled after it had completed

commsVars == <<current_connection, current_connection_str,
               last_position_broadcast_index, identity_connected, deferred,
               lastCall, polledAfterComplete>>

hostVars == <<rpcVars, commsVars>>

engineVars == <<bridgeVars, mailboxVars, hostVars>>

vars == <<httpVars, sceneVars, engineVars>>

(***************************************************************************)
(* Values                                                                  *)
(***************************************************************************)
NoJob == [id |-> 0, priority |-> 0, response_type |-> "None",
          network_inspector_id |-> "INVALID", network_inspector_sender |-> "None"]

NoResult == [kind |-> "None", id |-> 0, response_type |-> "None",
             headers |-> "None", response_data |-> "None"]

\* request_option.id: assigned by the caller, distinct per request
RequestId(c) == 100 + c

SeqToSet(s) == {s[i] : i \in 1..Len(s)}

(***************************************************************************)
(* impl Ord for QueueRequest: a.cmp(b) = b.priority.cmp(a.priority), so    *)
(* the greatest element of the max-heap has the smallest priority value.   *)
(***************************************************************************)
\* a faulty variant, for comparison: the comparison not reversed
QueueRequestLeq_NotReversed(a, b) == a.priority <= b.priority

\* a <= b in the heap's order
QueueRequestLeq(a, b) == b.priority <= a.priority

\* BinaryHeap::pop: a greatest element (any of them when several are equal)
HeapTop(q) == {j \in q : \A k \in q : QueueRequestLeq(job[k], job[j])}

(***************************************************************************)
(* process_request: what the network and the file system can do to a job,  *)
(* and the Result it returns.                                              *)
(***************************************************************************)
\* "transport_err": request.send() (:212) or the reading of the body (:228,
\* :231, :234, :246) ends with a reqwest error, a timeout included
NetOutcomes(response_type) ==
    {"transport_err"} \cup
    CASE response_type = "AsString" -> {"text"}
      [] response_type = "AsBytes"  -> {"bytes"}
      [] response_type = "ToFile"   -> {"create_err", "write_err", "written"}
      [] response_type = "AsJson"   -> {"json_valid", "json_invalid"}

\* a faulty variant, for comparison: the error built with a default id
map_err_func_DefaultId(request_option) ==
    [kind |-> "Err", id |-> 0, response_type |-> request_option.response_type,
     headers |-> "None", response_data |-> "None"]

\* :207-:210 (and :237-:240): RequestResponseError { id: request_option.id, .. }
map_err_func(request_option) ==
    [kind |-> "Err", id |-> request_option.id,
     response_type |-> request_option.response_type,
     headers |-> "None", response_data |-> "None"]

\* :251-:256: Ok(RequestResponse { headers, request_option, status_code, response_data })
OkResponse(request_option, network_inspector_id, data) ==
    [kind |-> "Ok", id |-> request_option.id,
     response_type |-> request_option.response_type,
     headers |-> IF network_inspector_id = "VALID" THEN "Some" ELSE "None",
     response_data |-> data]

\* a faulty variant, for comparison: a body that does not parse escalated to the error result
process_request_JsonEscalated(request_option, network_inspector_id, net) ==
    CASE net \in {"transport_err", "create_err", "json_invalid"} ->
            map_err_func(request_option)
      [] net = "text"       -> OkResponse(request_option, network_inspector_id, "String")
      [] net = "bytes"      -> OkResponse(request_option, network_inspector_id, "Bytes")
      [] net = "write_err"  -> OkResponse(request_option, network_inspector_id, "ToFile(Err)")
      [] net = "written"    -> OkResponse(request_option, network_inspector_id, "ToFile(Ok(path))")
      [] net = "json_valid" -> OkResponse(request_option, network_inspector_id, "Json(Ok)")

process_request(request_option, network_inspector_id, net) ==
    CASE net = "transport_err" -> map_err_func(request_option)               \* :212 :228 :231 :234 :246
      [] net = "text"       -> OkResponse(request_option, network_inspector_id, "String")
      [] net = "bytes"      -> OkResponse(request_option, network_inspector_id, "Bytes")
      [] net = "create_err" -> map_err_func(request_option)                  \* :235-:240
      [] net = "write_err"  -> OkResponse(request_option, network_inspector_id, "ToFile(Err)")
      [] net = "written"    -> OkResponse(request_option, network_inspector_id, "ToFile(Ok(path))")
      [] net = "json_valid" -> OkResponse(request_option, network_inspector_id, "Json(Ok)")
      [] net = "json_invalid" -> OkResponse(request_option, network_inspector_id, "Json(Err)")

(***************************************************************************)
(* Initial state: new(max_parallel_requests, inspector_sender)             *)
(***************************************************************************)
HttpNew(n, enabled) ==
    /\ max_parallel_requests = n
    /\ inspect_enable = enabled
    \* the dispatcher is built with Some(sender); with None it behaves as
    \* with NETWORK_INSPECTOR_ENABLE off (:78-:81)
    /\ inspector_sender = "Some"
    /\ sinkLen = 0
    /\ sinkClosed = FALSE
    /\ queue = {}
    /\ semaphore = n
    /\ job = [c \in Callers |-> NoJob]
    /\ callerPc = [c \in Callers |-> "idle"]
    /\ taskPc = [c \in Callers |-> "none"]
    /\ cur = [c \in Callers |-> 0]
    /\ response_result = [c \in Callers |-> NoResult]
    /\ reply = [c \in Callers |-> NoResult]
    /\ netOutcome = [c \in Callers |-> "none"]
    /\ netCalls = [c \in Callers |-> 0]
    /\ sendCount = [c \in Callers |-> 0]
    /\ pushOrder = <<>>
    /\ resolveOrder = <<>>
    /\ pushedAtPop = [c \in Callers |-> {}]

HttpInit == \E n \in 0..MaxParallel, enabled \in BOOLEAN : HttpNew(n, enabled)

(***************************************************************************)
(* request(): lines 71-113                                                 *)
(***************************************************************************)
\* :76-:98 the caller enters request() with its descriptor and priority
request_begin(c) ==
    /\ callerPc[c] = "idle"
    /\ \E p \in Priorities, rt \in ResponseTypesOf(c) :
         LET inspected == inspect_enable /\ inspector_sender = "Some" IN
         /\ job' = [job EXCEPT ![c] =
                [id |-> RequestId(c), priority |-> p, response_type |-> rt,
                 network_inspector_id |-> IF inspected THEN "VALID" ELSE "INVALID",
                 network_inspector_sender |-> IF inspected THEN "Some" ELSE "None"]]
         /\ callerPc' = [callerPc EXCEPT ![c] =
                IF inspected THEN "inspect_send" ELSE "push"]
    /\ UNCHANGED <<sceneVars, engineVars, max_parallel_requests, inspect_enable, inspector_sender,
                   sinkLen, sinkClosed, queue, semaphore, taskPc, cur,
                   response_result, reply, netOutcome, netCalls, sendCount,
                   pushOrder, resolveOrder, pushedAtPop>>

\* :94 `let _ = inspector_sender.send(event).await`: waits for room in the
\* channel; returns an error, which is dropped, when the receiver is gone
request_inspect_send(c) ==
    /\ callerPc[c] = "inspect_send"
    /\ sinkClosed \/ sinkLen < InspectorCap
    /\ sinkLen' = IF sinkClosed THEN sinkLen ELSE sinkLen + 1
    /\ callerPc' = [callerPc EXCEPT ![c] = "push"]
    /\ UNCHANGED <<sceneVars, engineVars, max_parallel_requests, inspect_enable, inspector_sender,
                   sinkClosed, queue, semaphore, job, taskPc, cur,
                   response_result, reply, netOutcome, netCalls, sendCount,
                   pushOrder, resolveOrder, pushedAtPop>>

\* a faulty variant, for comparison: the job does not reach the shared queue
request_push_Lost(c) ==
    /\ callerPc[c] = "push"
    /\ pushOrder' = Append(pushOrder, c)
    /\ callerPc' = [callerPc EXCEPT ![c] = "spawn"]
    /\ UNCHANGED <<sceneVars, engineVars, max_parallel_requests, inspect_enable,
                   inspector_sender, sinkLen, sinkClosed, queue, semaphore, job,
                   taskPc, cur, response_result, reply, netOutcome, netCalls,
                   sendCount, resolveOrder, pushedAtPop>>

\* :110 self.queue.lock().unwrap().push(http_request)
request_push(c) ==
    /\ callerPc[c] = "push"
    /\ queue' = queue \cup {c}
    /\ pushOrder' = Append(pushOrder, c)
    /\ callerPc' = [callerPc EXCEPT ![c] = "spawn"]
    /\ UNCHANGED <<sceneVars, engineVars, max_parallel_requests, inspect_enable, inspector_sender,
                   sinkLen, sinkClosed, semaphore, job, taskPc, cur,
                   response_result, reply, netOutcome, netCalls, sendCount,
                   resolveOrder, pushedAtPop>>

\* :111, :115-:120 process_queue(): tokio::spawn of one dispatch attempt
process_queue(c) ==
    /\ callerPc[c] = "spawn"
    /\ taskPc' = [taskPc EXCEPT ![c] = "acquire"]
    /\ callerPc' = [callerPc EXCEPT ![c] = "await"]
    /\ UNCHANGED <<sceneVars, engineVars, max_parallel_requests, inspect_enable, inspector_sender,
                   sinkLen, sinkClosed, queue, semaphore, job, cur,
                   response_result, reply, netOutcome, netCalls, sendCount,
                   pushOrder, resolveOrder, pushedAtPop>>

\* :112 response_receiver.await.unwrap()
request_receive(c) ==
    /\ callerPc[c] = "await"
    /\ reply[c].kind # "None"
    /\ callerPc' = [callerPc EXCEPT ![c] = "done"]
    /\ UNCHANGED <<sceneVars, engineVars, max_parallel_requests, inspect_enable, inspector_sender,
                   sinkLen, sinkClosed, queue, semaphore, job, taskPc, cur,
                   response_result, reply, netOutcome, netCalls, sendCount,
                   pushOrder, resolveOrder, pushedAtPop>>

(***************************************************************************)
(* The dispatch attempt spawned by process_queue(): lines 120-180          *)
(***************************************************************************)
\* a faulty variant, for comparison: the permit taken without waiting for one to be available
acquire_owned_NoWait(t) ==
    /\ taskPc[t] = "acquire"
    /\ semaphore' = IF semaphore > 0 THEN semaphore - 1 ELSE 0
    /\ taskPc' = [taskPc EXCEPT ![t] = "pop"]
    /\ UNCHANGED <<sceneVars, engineVars, max_parallel_requests, inspect_enable, inspector_sender,
                   sinkLen, sinkClosed, queue, job, callerPc, cur,
                   response_result, reply, netOutcome, netCalls, sendCount,
                   pushOrder, resolveOrder, pushedAtPop>>

\* :121 let _permit = semaphore.acquire_owned().await
acquire_owned(t) ==
    /\ taskPc[t] = "acquire"
    /\ semaphore > 0
    /\ semaphore' = semaphore - 1
    /\ taskPc' = [taskPc EXCEPT ![t] = "pop"]
    /\ UNCHANGED <<sceneVars, engineVars, max_parallel_requests, inspect_enable, inspector_sender,
                   sinkLen, sinkClosed, queue, job, callerPc, cur,
                   response_result, reply, netOutcome, netCalls, sendCount,
                   pushOrder, resolveOrder, pushedAtPop>>

\* :122-:128 queue.lock().unwrap().pop(); with None the attempt ends
queue_pop(t) ==
    /\ taskPc[t] = "pop"
    /\ IF queue = {}
       THEN /\ taskPc' = [taskPc EXCEPT ![t] = "release"]
            /\ UNCHANGED <<queue, cur, pushedAtPop>>
       ELSE \E j \in HeapTop(queue) :
            /\ queue' = queue \ {j}
            /\ cur' = [cur EXCEPT ![t] = j]
            /\ pushedAtPop' = [pushedAtPop EXCEPT ![j] = SeqToSet(pushOrder)]
            /\ taskPc' = [taskPc EXCEPT ![t] = "net"]
    /\ UNCHANGED <<sceneVars, engineVars, max_parallel_requests, inspect_enable, inspector_sender,
                   sinkLen, sinkClosed, semaphore, job, callerPc,
                   response_result, reply, netOutcome, netCalls, sendCount,
                   pushOrder, resolveOrder>>

\* :129-:176 process_request(..).await returns, then the response event is
\* offered to the inspection channel with try_send (an error is only logged)
process_request_done(t) ==
    /\ taskPc[t] = "net"
    /\ LET j == cur[t] IN
       \E net \in NetOutcomes(job[j].response_type) :
         /\ response_result' = [response_result EXCEPT ![t] =
                process_request(job[j], job[j].network_inspector_id, net)]
         /\ netOutcome' = [netOutcome EXCEPT ![j] = net]
         /\ netCalls' = [netCalls EXCEPT ![j] = @ + 1]
         /\ sinkLen' = IF /\ job[j].network_inspector_id = "VALID"
                          /\ job[j].network_inspector_sender = "Some"
                          /\ ~sinkClosed
                          /\ sinkLen < InspectorCap
                       THEN sinkLen + 1 ELSE sinkLen
    /\ taskPc' = [taskPc EXCEPT ![t] = "reply"]
    /\ UNCHANGED <<sceneVars, engineVars, max_parallel_requests, inspect_enable, inspector_sender,
                   sinkClosed, queue, semaphore, job, callerPc, cur, reply,
                   sendCount, pushOrder, resolveOrder, pushedAtPop>>

\* a faulty variant, for comparison: the result goes to the reply slot of the
\* submission that spawned the attempt
response_sender_send_OwnSlot(t) ==
    /\ taskPc[t] = "reply"
    /\ reply' = [reply EXCEPT ![t] = response_result[t]]
    /\ sendCount' = [sendCount EXCEPT ![t] = @ + 1]
    /\ resolveOrder' = Append(resolveOrder, t)
    /\ taskPc' = [taskPc EXCEPT ![t] = "release"]
    /\ UNCHANGED <<sceneVars, engineVars, max_parallel_requests, inspect_enable,
                   inspector_sender, sinkLen, sinkClosed, queue, semaphore, job,
                   callerPc, cur, response_result, netOutcome, netCalls,
                   pushOrder, pushedAtPop>>

\* :178 let _ = queue_request.response_sender.send(response_result)
response_sender_send(t) ==
    /\ taskPc[t] = "reply"
    /\ LET j == cur[t] IN
         /\ reply' = [reply EXCEPT ![j] = response_result[t]]
         /\ sendCount' = [sendCount EXCEPT ![j] = @ + 1]
         /\ resolveOrder' = Append(resolveOrder, j)
    /\ taskPc' = [taskPc EXCEPT ![t] = "release"]
    /\ UNCHANGED <<sceneVars, engineVars, max_parallel_requests, inspect_enable, inspector_sender,
                   sinkLen, sinkClosed, queue, semaphore, job, callerPc, cur,
                   response_result, netOutcome, netCalls, pushOrder,
                   pushedAtPop>>

\* a faulty variant, for comparison: the permit leaked when the attempt ends
permit_drop_Leaked(t) ==
    /\ taskPc[t] = "release"
    /\ taskPc' = [taskPc EXCEPT ![t] = "done"]
    /\ UNCHANGED <<sceneVars, engineVars, max_parallel_requests, inspect_enable, inspector_sender,
                   sinkLen, sinkClosed, queue, semaphore, job, callerPc, cur,
                   response_result, reply, netOutcome, netCalls, sendCount,
                   pushOrder, resolveOrder, pushedAtPop>>

\* :180 the spawned block ends and _permit is dropped
permit_drop(t) ==
    /\ taskPc[t] = "release"
    /\ semaphore' = semaphore + 1
    /\ taskPc' = [taskPc EXCEPT ![t] = "done"]
    /\ UNCHANGED <<sceneVars, engineVars, max_parallel_requests, inspect_enable, inspector_sender,
                   sinkLen, sinkClosed, queue, job, callerPc, cur,
                   response_result, reply, netOutcome, netCalls, sendCount,
                   pushOrder, resolveOrder, pushedAtPop>>

(***************************************************************************)
(* The inspection sink (the receiving end of NetworkInspectorSender)       *)
(***************************************************************************)
\* the receiver takes one event
sink_recv ==
    /\ inspect_enable /\ inspector_sender = "Some"
    /\ ~sinkClosed /\ sinkLen > 0
    /\ sinkLen' = sinkLen - 1
    /\ UNCHANGED <<sceneVars, engineVars, max_parallel_requests, inspect_enable, inspector_sender,
                   sinkClosed, queue, semaphore, job, callerPc, taskPc, cur,
                   response_result, reply, netOutcome, netCalls, sendCount,
                   pushOrder, resolveOrder, pushedAtPop>>

\* the receiver is dropped
sink_close ==
    /\ inspect_enable /\ inspector_sender = "Some"
    /\ ~sinkClosed
    /\ sinkClosed' = TRUE
    /\ sinkLen' = 0
    /\ UNCHANGED <<sceneVars, engineVars, max_parallel_requests, inspect_enable, inspector_sender,
                   queue, semaphore, job, callerPc, taskPc, cur,
                   response_result, reply, netOutcome, netCalls, sendCount,
                   pushOrder, resolveOrder, pushedAtPop>>

\* the steps of the dispatcher itself and of the network
HttpProgress ==
    \E c \in Callers :
        \/ request_inspect_send(c)
        \/ request_push(c)
        \/ process_queue(c)
        \/ request_receive(c)
        \/ acquire_owned(c)
        \/ queue_pop(c)
        \/ process_request_done(c)
        \/ response_sender_send(c)
        \/ permit_drop(c)

HttpNext ==
    \/ \E c \in Callers : request_begin(c)
    \/ HttpProgress
    \/ sink_recv
    \/ sink_close

(***************************************************************************)
(* SceneCrdtState (dcl/crdt, outside these sources): modelled from the     *)
(* state store's contract, last-writer-wins per key with a dirty set.      *)
(***************************************************************************)
CrdtKeys == {"k1", "k2"}
CrdtVersions == {1, 2}
CrdtMessages == [key : CrdtKeys, version : CrdtVersions]

\* the persisted batches: sequences of at most MaxSnapshotLen messages
Snapshots == UNION {[1..n -> CrdtMessages] : n \in 0..MaxSnapshotLen}

\* FileAccess::open(main.crdt): None, or the file with its messages
NoFile == [found |-> FALSE, buf |-> <<>>]
SnapshotFiles == {[found |-> TRUE, buf |-> b] : b \in Snapshots}

\* SceneCrdtState::from_proto(): nothing stored (version 0), nothing dirty
from_proto == [entries |-> [k \in CrdtKeys |-> 0], dirty |-> {}]

\* one message: a strictly greater version replaces the entry and dirties it
process_message(state, m) ==
    IF m.version > state.entries[m.key]
    THEN [entries |-> [state.entries EXCEPT ![m.key] = m.version],
          dirty |-> state.dirty \cup {m.key}]
    ELSE state

RECURSIVE process_many_messages(_, _)
process_many_messages(stream, state) ==
    IF stream = <<>> THEN state
    ELSE process_many_messages(Tail(stream), process_message(state, Head(stream)))

\* take_dirty(): the dirty set, cleared in the store
take_dirty(state) == [state EXCEPT !.dirty = {}]

(***************************************************************************)
(* scene_thread(): lines 103-315                                           *)
(***************************************************************************)
\* the scene_id argument of the modelled thread
scene_id == 1

Clock == 0..MaxClock

\* SceneResponse values
ResponseOk(dirty_state, logs, delta) ==
    [tag |-> "Ok", scene_id |-> scene_id, dirty_crdt_state |-> dirty_state,
     logs |-> logs, delta |-> delta, rpc_calls |-> 0]

ResponseError ==
    [tag |-> "Error", scene_id |-> scene_id, dirty_crdt_state |-> {},
     logs |-> 0, delta |-> 0, rpc_calls |-> 0]

ResponseRemoveGodotScene(logs) ==
    [tag |-> "RemoveGodotScene", scene_id |-> scene_id, dirty_crdt_state |-> {},
     logs |-> logs, delta |-> 0, rpc_calls |-> 0]

\* :135-:141 SceneResponse::Ok { scene_id, dirty_crdt_state: dirty,
\*           logs: Vec::new(), delta: 0.0, rpc_calls: Vec::new() }
SnapshotResponse(dirty_state) == ResponseOk(dirty_state, 0, 0)

\* SyncSender::send can proceed: there is room, or the receiver is gone
\* (and the send returns an error)
CanSend == rendererGone \/ Len(toMain) < MainChanCap

\* SystemTime::duration_since: Err when `now` is earlier than `earlier`
duration_since(now, earlier) ==
    IF now >= earlier THEN [ok |-> TRUE, d |-> now - earlier]
                      ELSE [ok |-> FALSE, d |-> earlier - now]

unwrap_or(res, default) == IF res.ok THEN res.d ELSE default

\* Duration - Duration: checked_sub(..).expect("overflow when subtracting
\* durations"); Panic stands for the panic
Panic == -1
DurationSub(a, b) == IF a >= b THEN a - b ELSE Panic

SceneArgs(path, crdt, js) ==
    /\ scenePc = "start"
    /\ local_main_crdt_file_path = path
    /\ main_crdt_file = crdt
    /\ main_js_file = js
    /\ scene_crdt = from_proto
    /\ scene_crdt_lock = "free"
    /\ dirty = {}
    /\ toMain = <<>>
    /\ rendererGone = FALSE
    /\ VM_HANDLES = {}
    /\ SceneLogs = 0
    /\ SceneDying = FALSE
    /\ start_time = 0
    /\ elapsed = 0
    /\ dt = 0
    /\ sendLog = <<>>
    /\ sendTried = <<>>
    /\ terminate_requested = FALSE
    /\ terminated = FALSE
    /\ logsTaken = 0
    /\ exitPath = ""
    /\ loopEndLogs = 0
    /\ jsOpened = FALSE
    /\ scriptRan = FALSE
    /\ ticks = 0
    /\ nowLog = <<>>
    /\ prevElapsed = 0

\* spawn_new_js_dcl_scene: a scene with or without a main.crdt path, whose
\* files exist or not
SceneInit ==
    \E path \in {"", "main.crdt"}, crdt \in {NoFile} \cup SnapshotFiles,
       js \in {"None", "Some"} :
        /\ path = "" => crdt = NoFile
        /\ SceneArgs(path, crdt, js)

\* a faulty variant, for comparison: the snapshot left for later, the script loaded first
open_main_crdt_Skipped ==
    /\ scenePc = "start"
    /\ scenePc' = "open_js"
    /\ UNCHANGED <<httpVars, engineVars, lifeVars, sceneArgs, crdtVars, chanVars, opVars, clockVars,
                   histVars>>

\* :116-:125 the main.crdt path, when given, is opened
open_main_crdt ==
    /\ scenePc = "start"
    /\ scenePc' = IF local_main_crdt_file_path # "" /\ main_crdt_file.found
                  THEN "replay" ELSE "open_js"
    /\ UNCHANGED <<httpVars, engineVars, lifeVars, sceneArgs, crdtVars, chanVars, opVars, clockVars,
                   histVars>>

\* :126-:133 the file is read, the store locked, the batch replayed and the
\* dirty state taken
replay_main_crdt ==
    /\ scenePc = "replay"
    /\ scene_crdt_lock = "free"
    /\ scene_crdt_lock' = "scene_thread"
    /\ LET replayed == process_many_messages(main_crdt_file.buf, scene_crdt) IN
         /\ dirty' = replayed.dirty
         /\ scene_crdt' = take_dirty(replayed)
    /\ scenePc' = "send_snapshot"
    /\ UNCHANGED <<httpVars, engineVars, lifeVars, sceneArgs, chanVars, opVars, clockVars, histVars>>

\* :134-:145 thread_sender_to_main.send(SceneResponse::Ok{..}).expect(..);
\* the guard of the store is dropped at the end of the block
send_snapshot ==
    /\ scenePc = "send_snapshot"
    /\ CanSend
    /\ IF rendererGone
       THEN /\ scenePc' = "panic_send"
            /\ scene_crdt_lock' = "poisoned"
            /\ UNCHANGED <<toMain, sendLog>>
       ELSE /\ toMain' = Append(toMain, SnapshotResponse(dirty))
            /\ sendLog' = Append(sendLog, SnapshotResponse(dirty))
            /\ scenePc' = "open_js"
            /\ scene_crdt_lock' = "free"
    /\ sendTried' = Append(sendTried, SnapshotResponse(dirty))
    /\ UNCHANGED <<httpVars, engineVars, lifeVars, sceneArgs, scene_crdt, dirty, rendererGone,
                   opVars, clockVars, histVars>>

\* a faulty variant, for comparison: the result of the open is not looked at
open_main_js_NoCheck ==
    /\ scenePc = "open_js"
    /\ jsOpened' = TRUE
    /\ scenePc' = "create_runtime"
    /\ UNCHANGED <<httpVars, engineVars, lifeVars, sceneArgs, crdtVars, chanVars, opVars,
                   clockVars, scriptRan>>

\* :148-:162 the main script file is opened
open_main_js ==
    /\ scenePc = "open_js"
    /\ jsOpened' = TRUE
    /\ scenePc' = IF main_js_file = "None" THEN "send_error" ELSE "create_runtime"
    /\ UNCHANGED <<httpVars, engineVars, lifeVars, sceneArgs, crdtVars, chanVars, opVars, clockVars,
                   scriptRan>>

\* :153-:161 the file is missing: SceneResponse::Error is sent (a failed send
\* is logged) and the thread returns
send_error ==
    /\ scenePc = "send_error"
    /\ CanSend
    /\ IF rendererGone
       THEN UNCHANGED <<toMain, sendLog>>
       ELSE /\ toMain' = Append(toMain, ResponseError)
            /\ sendLog' = Append(sendLog, ResponseError)
    /\ sendTried' = Append(sendTried, ResponseError)
    /\ exitPath' = "missing_js"
    /\ scenePc' = "exited"
    /\ UNCHANGED <<httpVars, engineVars, terminate_requested, terminated, logsTaken,
                   loopEndLogs, sceneArgs, crdtVars, rendererGone, opVars,
                   clockVars, histVars>>

\* a faulty variant, for comparison: the handle is not stored
create_runtime_NoHandle ==
    /\ scenePc = "create_runtime"
    /\ SceneLogs' = 0
    /\ SceneDying' = FALSE
    /\ scenePc' = "load_scene"
    /\ UNCHANGED <<httpVars, engineVars, lifeVars, sceneArgs, crdtVars,
                   chanVars, VM_HANDLES, clockVars, histVars>>

\* :164-:214 the runtime is built, its handle stored in VM_HANDLES and the
\* op state filled
create_runtime ==
    /\ scenePc = "create_runtime"
    /\ VM_HANDLES' = VM_HANDLES \cup {scene_id}
    /\ SceneLogs' = 0
    /\ SceneDying' = FALSE
    /\ scenePc' = "load_scene"
    /\ UNCHANGED <<httpVars, engineVars, lifeVars, sceneArgs, crdtVars, chanVars, clockVars, histVars>>

\* script code runs: it may buffer a log record (op_log, op_error)
ScriptLogs(logs) == {logs} \cup {l \in {logs + 1} : l <= MaxLogs}

\* whether a call into the script can succeed: once terminate_execution() was
\* called on the isolate, JavaScript that is entered ends with an error
ScriptResults == IF terminate_requested THEN {FALSE} ELSE BOOLEAN

\* the thread returns early: exitPath tells from where
Return(path) ==
    /\ exitPath' = path
    /\ scenePc' = "exited"

\* the step succeeded and the thread goes on, or it failed and the thread
\* returns
GoOnOrReturn(ok, next, path) ==
    IF ok THEN scenePc' = next /\ UNCHANGED exitPath ELSE Return(path)

\* :216-:229 the loader runs the scene's code; on an error the thread returns
load_scene ==
    /\ scenePc = "load_scene"
    /\ scriptRan' = TRUE
    /\ SceneLogs' \in ScriptLogs(SceneLogs)
    /\ \E ok \in ScriptResults : GoOnOrReturn(ok, "load_utils", "load_error")
    /\ UNCHANGED <<httpVars, engineVars, terminate_requested, terminated, logsTaken,
                   loopEndLogs, sceneArgs, crdtVars, chanVars, VM_HANDLES,
                   SceneDying, clockVars, jsOpened>>

\* :231-:240 utils.js is loaded; on an error the thread returns
load_utils ==
    /\ scenePc = "load_utils"
    /\ \E ok \in ScriptResults : GoOnOrReturn(ok, "on_start", "utils_error")
    /\ UNCHANGED <<httpVars, engineVars, terminate_requested, terminated, logsTaken,
                   loopEndLogs, sceneArgs, crdtVars, chanVars, opVars,
                   clockVars, histVars>>

\* :242-:247 run_script(onStart); on an error the thread returns
on_start ==
    /\ scenePc = "on_start"
    /\ SceneLogs' \in ScriptLogs(SceneLogs)
    /\ \E ok \in ScriptResults : GoOnOrReturn(ok, "run_async", "start_error")
    /\ UNCHANGED <<httpVars, engineVars, terminate_requested, terminated, logsTaken,
                   loopEndLogs, sceneArgs, crdtVars, chanVars, VM_HANDLES,
                   SceneDying, clockVars, histVars>>

\* :249-:256 run_script(run_async); on an error the thread returns
run_async ==
    /\ scenePc = "run_async"
    /\ SceneLogs' \in ScriptLogs(SceneLogs)
    /\ \E ok \in ScriptResults : GoOnOrReturn(ok, "loop_start", "flush_error")
    /\ UNCHANGED <<httpVars, engineVars, terminate_requested, terminated, logsTaken,
                   loopEndLogs, sceneArgs, crdtVars, chanVars, VM_HANDLES,
                   SceneDying, clockVars, histVars>>

\* :258-:259 start_time = SystemTime::now(); elapsed = 0
loop_start ==
    /\ scenePc = "loop_start"
    /\ \E now \in Clock : start_time' = now
    /\ elapsed' = 0
    /\ scenePc' = "tick"
    /\ UNCHANGED <<httpVars, engineVars, lifeVars, sceneArgs, crdtVars, chanVars, opVars, dt, ticks,
                   nowLog, prevElapsed, histVars>>

\* :262-:265 dt = now().duration_since(start_time).unwrap_or(elapsed) - elapsed
tick_dt(now) ==
    DurationSub(unwrap_or(duration_since(now, start_time), elapsed), elapsed)

\* :261-:270 the top of the loop: dt and elapsed of this tick
tick ==
    /\ scenePc = "tick"
    /\ ticks < MaxTicks
    /\ \E now \in Clock :
         /\ nowLog' = Append(nowLog, now)
         /\ IF tick_dt(now) = Panic
            THEN /\ scenePc' = "panic_duration"
                 /\ UNCHANGED <<dt, elapsed>>
            ELSE /\ dt' = tick_dt(now)
                 /\ elapsed' = elapsed + tick_dt(now)
                 /\ scenePc' = "on_update"
    /\ ticks' = ticks + 1
    /\ prevElapsed' = elapsed
    /\ UNCHANGED <<httpVars, engineVars, lifeVars, sceneArgs, crdtVars, chanVars, opVars, start_time,
                   histVars>>

\* what run_script(onUpdate) does: the returned promise resolves ("Ok"), the
\* script throws ("Err"), or the promise never resolves, either because the
\* script keeps executing ("running") or because it waits for an operation
\* that never completes, the thread being parked in block_on ("parked")
UpdateOutcomes == {"Ok", "Err", "running", "parked"}

\* the loop is left for the teardown
LeaveLoop(path) ==
    /\ exitPath' = path
    /\ loopEndLogs' = SceneLogs'
    /\ scenePc' = "teardown"

\* a faulty variant, for comparison: the SceneDying flag is not looked at
on_update_DyingIgnored ==
    /\ scenePc = "on_update"
    /\ SceneLogs' \in ScriptLogs(SceneLogs)
    /\ \E res \in UpdateOutcomes, dying \in BOOLEAN :
         /\ terminate_requested => res = "Err"
         /\ SceneDying' = (IF res = "Ok" THEN dying ELSE SceneDying)
         /\ CASE res = "Err" -> LeaveLoop("tick_error")
              [] res = "Ok" ->
                    scenePc' = "tick" /\ UNCHANGED <<exitPath, loopEndLogs>>
              [] res = "running" ->
                    scenePc' = "update_running" /\ UNCHANGED <<exitPath, loopEndLogs>>
              [] res = "parked" ->
                    scenePc' = "update_parked" /\ UNCHANGED <<exitPath, loopEndLogs>>
    /\ UNCHANGED <<httpVars, engineVars, terminate_requested, terminated,
                   logsTaken, sceneArgs, crdtVars, chanVars, VM_HANDLES,
                   clockVars, histVars>>

\* :272-:304 run_script(onUpdate, dt): a script error or the SceneDying flag
\* ends the loop
on_update ==
    /\ scenePc = "on_update"
    /\ SceneLogs' \in ScriptLogs(SceneLogs)
    /\ \E res \in UpdateOutcomes, dying \in BOOLEAN :
         /\ terminate_requested => res = "Err"
         /\ SceneDying' = (IF res = "Ok" THEN dying ELSE SceneDying)
         /\ CASE res = "Err" -> LeaveLoop("tick_error")
              [] res = "Ok" /\ dying -> LeaveLoop("dying")
              [] res = "Ok" /\ ~dying ->
                    scenePc' = "tick" /\ UNCHANGED <<exitPath, loopEndLogs>>
              [] res = "running" ->
                    scenePc' = "update_running" /\ UNCHANGED <<exitPath, loopEndLogs>>
              [] res = "parked" ->
                    scenePc' = "update_parked" /\ UNCHANGED <<exitPath, loopEndLogs>>
    /\ UNCHANGED <<httpVars, engineVars, terminate_requested, terminated, logsTaken,
                   sceneArgs, crdtVars, chanVars, VM_HANDLES, clockVars,
                   histVars>>

\* IsolateHandle::terminate_execution() interrupts the JavaScript that is
\* executing: the call of onUpdate ends with an error (:280-:297).  A thread
\* parked in block_on executes no JavaScript and is not woken by it.
update_interrupted ==
    /\ scenePc = "update_running"
    /\ terminate_requested
    /\ SceneLogs' = SceneLogs
    /\ LeaveLoop("terminated")
    /\ UNCHANGED <<httpVars, engineVars, terminate_requested, terminated, logsTaken,
                   sceneArgs, crdtVars, chanVars, VM_HANDLES, SceneDying,
                   clockVars, histVars>>

\* a faulty variant, for comparison: the buffered records are dropped
teardown_LogsDropped ==
    /\ scenePc = "teardown"
    /\ logsTaken' = 0
    /\ SceneLogs' = 0
    /\ scenePc' = "send_removal"
    /\ UNCHANGED <<httpVars, engineVars, terminate_requested, terminated, exitPath,
                   loopEndLogs, sceneArgs, crdtVars, chanVars, VM_HANDLES,
                   SceneDying, clockVars, histVars>>

\* :306-:307 the buffered records are taken out of the op state
teardown ==
    /\ scenePc = "teardown"
    /\ logsTaken' = SceneLogs
    /\ SceneLogs' = 0
    /\ scenePc' = "send_removal"
    /\ UNCHANGED <<httpVars, engineVars, terminate_requested, terminated, exitPath,
                   loopEndLogs, sceneArgs, crdtVars, chanVars, VM_HANDLES,
                   SceneDying, clockVars, histVars>>

\* :308-:309 let _ = sender.send(RemoveGodotScene(scene_id, logs.0)): a failed
\* send is dropped
send_removal ==
    /\ scenePc = "send_removal"
    /\ CanSend
    /\ IF rendererGone
       THEN UNCHANGED <<toMain, sendLog>>
       ELSE /\ toMain' = Append(toMain, ResponseRemoveGodotScene(logsTaken))
            /\ sendLog' = Append(sendLog, ResponseRemoveGodotScene(logsTaken))
    /\ sendTried' = Append(sendTried, ResponseRemoveGodotScene(logsTaken))
    /\ scenePc' = "terminate"
    /\ UNCHANGED <<httpVars, engineVars, lifeVars, sceneArgs, crdtVars, rendererGone,
                   opVars, clockVars, histVars>>

\* :310-:315 runtime.v8_isolate().terminate_execution(), and the thread ends;
\* nothing is removed from VM_HANDLES
terminate_execution ==
    /\ scenePc = "terminate"
    /\ terminated' = TRUE
    /\ scenePc' = "exited"
    /\ UNCHANGED <<httpVars, engineVars, terminate_requested, logsTaken, exitPath,
                   loopEndLogs, sceneArgs, crdtVars, chanVars, opVars,
                   clockVars, histVars>>

(***************************************************************************)
(* The renderer's end of thread_sender_to_main                             *)
(***************************************************************************)
\* the renderer receives the oldest response
renderer_recv ==
    /\ ~rendererGone
    /\ toMain # <<>>
    /\ toMain' = Tail(toMain)
    /\ UNCHANGED <<httpVars, engineVars, lifeVars, scenePc, sceneArgs, crdtVars, rendererGone,
                   sendLog, sendTried, opVars, clockVars, histVars>>

\* the renderer drops the receiver
renderer_drop ==
    /\ ~rendererGone
    /\ scenePc \notin {"exited", "panic_send", "panic_duration"}
    /\ rendererGone' = TRUE
    /\ toMain' = <<>>
    /\ UNCHANGED <<httpVars, engineVars, lifeVars, scenePc, sceneArgs, crdtVars, sendLog,
                   sendTried, opVars, clockVars, histVars>>

\* a response of another scene, whose thread sends on a clone of the same
\* channel
OtherSceneResponse ==
    [tag |-> "Ok", scene_id |-> scene_id + 1, dirty_crdt_state |-> {},
     logs |-> 0, delta |-> 0, rpc_calls |-> 0]

\* another scene's thread sends a response to the renderer
other_scene_send ==
    /\ ~rendererGone
    /\ Len(toMain) < MainChanCap
    /\ scenePc \notin {"exited", "panic_send", "panic_duration"}
    /\ toMain' = Append(toMain, OtherSceneResponse)
    /\ UNCHANGED <<httpVars, engineVars, lifeVars, scenePc, sceneArgs,
                   crdtVars, rendererGone, sendLog, sendTried, opVars,
                   clockVars, histVars>>

(***************************************************************************)
(* Another thread, holding the handle stored in VM_HANDLES                 *)
(***************************************************************************)
\* VM_HANDLES.lock().get(&scene_id).terminate_execution()
request_termination ==
    /\ scene_id \in VM_HANDLES
    /\ ~terminate_requested
    /\ terminate_requested' = TRUE
    /\ UNCHANGED <<httpVars, engineVars, terminated, logsTaken, exitPath, loopEndLogs,
                   scenePc, sceneArgs, crdtVars, chanVars, opVars, clockVars,
                   histVars>>

SceneNext ==
    \/ open_main_crdt
    \/ replay_main_crdt
    \/ send_snapshot
    \/ open_main_js
    \/ send_error
    \/ create_runtime
    \/ load_scene
    \/ load_utils
    \/ on_start
    \/ run_async
    \/ loop_start
    \/ tick
    \/ on_update
    \/ update_interrupted
    \/ teardown
    \/ send_removal
    \/ terminate_execution
    \/ renderer_recv
    \/ renderer_drop
    \/ other_scene_send
    \/ request_termination

(***************************************************************************)
(* Claims about scene_thread                                               *)
(***************************************************************************)
\* the latest clock reading of the loop is earlier than the start time or
\* than a reading before it
InconsistentClock ==
    LET n == Len(nowLog) IN
    \/ nowLog[n] < start_time
    \/ \E i \in 1..(n - 1) : nowLog[n] < nowLog[i]

\* C9 as claimed: for every sequence of clock readings each tick computes a
\* dt that is non-negative, and zero when the reading is inconsistent, and
\* the accumulated elapsed time never decreases.
C9_DtNonNegativeZeroOnInconsistentClock ==
    ticks >= 1 =>
        /\ scenePc # "panic_duration"
        /\ dt >= 0
        /\ elapsed >= prevElapsed
        /\ InconsistentClock => dt = 0

\* a main.crdt path was given and the file could be read
SnapshotReadable == local_main_crdt_file_path # "" /\ main_crdt_file.found

\* the keys a replay of the snapshot into the fresh store leaves dirty
SnapshotDirty == process_many_messages(main_crdt_file.buf, from_proto).dirty

\* C10: with a readable snapshot, the thread has sent exactly one response
\* when it opens the main script: a successful tick carrying the dirty state
\* of the replay, elapsed 0, no logs and no outbound calls; it is the first
\* response sent, and it is sent before the main script is opened, the
\* runtime built or any script code run.
C10_SnapshotTickBeforeScript ==
    SnapshotReadable =>
        /\ scenePc = "open_js"
              => sendLog = <<ResponseOk(SnapshotDirty, 0, 0)>>
        /\ (jsOpened \/ scriptRan \/ VM_HANDLES # {})
              => /\ Len(sendLog) >= 1
                 /\ sendLog[1] = ResponseOk(SnapshotDirty, 0, 0)
        /\ scenePc \in {"start", "replay", "send_snapshot", "panic_send"}
              => ~jsOpened /\ ~scriptRan

\* script code has run after a snapshot that dirtied two keys was reported
C10_Witness ==
    /\ SnapshotReadable
    /\ Cardinality(SnapshotDirty) = 2
    /\ scriptRan
    /\ scenePc = "on_update"
    /\ sendLog[1] = ResponseOk(SnapshotDirty, 0, 0)

\* the positions of the responses with this tag handed to send()
Tried(tag) == {i \in 1..Len(sendTried) : sendTried[i].tag = tag}

\* the thread left the loop of :261-:304
LoopEnded == exitPath \in {"tick_error", "dying", "terminated"}

\* C11: when the main script file is absent the thread never builds the
\* runtime, never stores a handle in VM_HANDLES, never runs script code and
\* never starts a tick; when it has returned, it has handed exactly one
\* Error response, carrying its scene id, to the channel, as the last one.
C11_MissingScriptErrorAndExit ==
    main_js_file = "None" =>
        /\ VM_HANDLES = {}
        /\ ~scriptRan
        /\ ticks = 0
        /\ ~terminated
        /\ scenePc \in {"start", "replay", "send_snapshot", "panic_send",
                        "open_js", "send_error", "exited"}
        /\ scenePc = "exited" =>
              /\ exitPath = "missing_js"
              /\ Tried("Error") = {Len(sendTried)}
              /\ sendTried[Len(sendTried)] = ResponseError
              /\ ResponseError.scene_id = scene_id

\* the thread has returned after the snapshot tick and the Error response
C11_Witness ==
    /\ main_js_file = "None"
    /\ scenePc = "exited"
    /\ Len(sendTried) = 2
    /\ sendTried[1].tag = "Ok"
    /\ sendTried[2] = ResponseError
    /\ sendLog = sendTried

\* C12 as claimed: a thread that returned because onStart or the flush of the
\* pending promises failed has handed an Error response with its scene id to
\* the channel, and has started no tick.
C12_StartFailureEmitsError ==
    (scenePc = "exited" /\ exitPath \in {"start_error", "flush_error"}) =>
        /\ \E i \in Tried("Error") : sendTried[i].scene_id = scene_id
        /\ ticks = 0

\* C13 as claimed: on every path by which the thread ends, a RemoveGodotScene
\* response with its scene id has been handed to the channel.
C13_RemovalNoticeOnEveryExit ==
    scenePc = "exited" =>
        \E i \in Tried("RemoveGodotScene") : sendTried[i].scene_id = scene_id

\* C14: at most one RemoveGodotScene response is ever handed to the channel;
\* once the loop has ended and the send was made, it is the last response, it
\* carries exactly the records that were buffered when the loop ended, and
\* none are left buffered; the thread calls terminate_execution only after
\* that send.
C14_RemovalThenInterrupt ==
    /\ Cardinality(Tried("RemoveGodotScene")) <= 1
    /\ scenePc \in {"teardown", "send_removal"} =>
          Tried("RemoveGodotScene") = {} /\ ~terminated
    /\ scenePc = "terminate" => ~terminated
    /\ terminated => Tried("RemoveGodotScene") # {}
    /\ (LoopEnded /\ scenePc \in {"terminate", "exited"}) =>
          /\ Tried("RemoveGodotScene") = {Len(sendTried)}
          /\ sendTried[Len(sendTried)] = ResponseRemoveGodotScene(loopEndLogs)
          /\ SceneLogs = 0
          /\ scenePc = "exited" => terminated

\* the loop ended with a buffered record, which the removal notice carried
C14_Witness ==
    /\ scenePc = "exited"
    /\ LoopEnded
    /\ terminated
    /\ loopEndLogs = 1
    /\ sendLog[Len(sendLog)] = ResponseRemoveGodotScene(1)

\* C15 as claimed: once the thread has ended, VM_HANDLES holds no entry for
\* its scene id.
C15_HandleDeregisteredAtExit ==
    scenePc = "exited" => scene_id \notin VM_HANDLES

\* the call of onUpdate of the current tick never resolves
UpdateNeverResolves == scenePc \in {"update_running", "update_parked"}

\* C16 as claimed: a scene whose onUpdate never resolves, once termination was
\* requested through its handle of VM_HANDLES, eventually leaves the loop,
\* hands its RemoveGodotScene response to the channel, and its thread ends.
C16_ForcedTerminationFreesThread ==
    (UpdateNeverResolves /\ terminate_requested)
        ~> (scenePc = "exited" /\ Tried("RemoveGodotScene") # {})

\* C18 as claimed: with the receiver of thread_sender_to_main gone, no failed
\* send (of the snapshot tick, the Error response or the removal notice)
\* aborts the thread.
C18_FailedSendNotFatal ==
    rendererGone => scenePc # "panic_send"

\* the thread is at, or inside, a call into the script
AtScript ==
    scenePc \in {"load_scene", "load_utils", "on_start", "run_async",
                 "on_update", "update_running", "update_parked"}

\* C22 as claimed: the scene thread never holds the lock of its store while
\* it is blocked in a send on thread_sender_to_main, nor while script code
\* runs.
C22_StoreLockOnlyAroundStoreCalls ==
    scene_crdt_lock = "scene_thread" =>
        /\ ~(scenePc = "send_snapshot" /\ ~CanSend)
        /\ ~AtScript

\* C23: ticks are counted one at a time, each started from the top of the
\* loop; a call of onUpdate that returns with an error, or after which the
\* SceneDying flag is set, is followed by the teardown, any other call that
\* returns by the top of the loop; and once the loop has ended no tick is
\* started.
C23_TicksSequentialUntilErrorOrDying ==
    /\ [][ticks' # ticks =>
             /\ scenePc = "tick"
             /\ ticks' = ticks + 1
             /\ scenePc' \in {"on_update", "panic_duration"}]_vars
    /\ [][(scenePc = "on_update" /\ scenePc' \in {"tick", "teardown"}) =>
             IF exitPath' = "tick_error" \/ SceneDying'
             THEN scenePc' = "teardown"
             ELSE scenePc' = "tick"]_vars
    /\ [][LoopEnded =>
             /\ ticks' = ticks
             /\ scenePc' \notin {"tick", "on_update"}]_vars

\* a second tick was started after a first that succeeded, and it ended the
\* loop with the SceneDying flag
C23_Witness ==
    /\ ticks = 2
    /\ exitPath = "dying"
    /\ SceneDying
    /\ scenePc = "teardown"

\* C24: whenever the thread is at or inside a call into the script, or has
\* run script code, the handle of its isolate is stored in VM_HANDLES under
\* its scene id.
C24_HandleRegisteredBeforeScript ==
    (AtScript \/ scriptRan \/ ticks > 0) => scene_id \in VM_HANDLES

\* the script of the first tick is executing, its handle registered and no
\* termination requested yet
C24_Witness ==
    /\ scenePc = "update_running"
    /\ ticks = 1
    /\ scene_id \in VM_HANDLES
    /\ ~terminate_requested

(***************************************************************************)
(* create_runtime(): lines 47-99, and op_require: lines 367-406             *)
(***************************************************************************)
\* the names the ops of the op sets may have
OpNames == {"op_a", "op_b"}

\* :51 the core ops, declared before the op sets
CoreOps == <<"op_require", "op_log", "op_error">>

\* an op declaration: its name and the op set that implements it (0: core)
OpDecl(name, k) == [name |-> name, set |-> k]

\* the names that are declared more than once
DuplicateNames(ops) ==
    {ops[i].name : i \in {j \in 1..Len(ops) :
                            \E h \in 1..Len(ops) : h # j /\ ops[h].name = ops[j].name}}

\* a set as a sequence, in some order
RECURSIVE SetToSeq(_)
SetToSeq(S) ==
    IF S = {} THEN <<>>
    ELSE LET x == CHOOSE y \in S : TRUE IN <<x>> \o SetToSeq(S \ {x})

\* one scene's op state before the runtime is built
BridgeArgs(sets, know_env) ==
    /\ bridgePc = "ops"
    /\ op_sets = sets
    /\ setIdx = 1
    /\ op_map = [n \in OpNames |-> 0]
    /\ ext_ops = [i \in 1..Len(CoreOps) |-> OpDecl(CoreOps[i], 0)]
    /\ runtime_ops = <<>>
    /\ SceneJsFileContent = "None"
    /\ enable_know_env = know_env
    /\ required = [module_spec |-> "", kind |-> "None", source |-> ""]
    /\ requireCount = 0
    /\ replaced = {}

\* :47-:66 create_runtime() begins: the core ops are declared, the op sets
\* are given
BridgeInit ==
    \E sets \in [1..NumOpSets -> SUBSET OpNames], know_env \in BOOLEAN :
        BridgeArgs(sets, know_env)

\* :68-:73 one turn of `for set in op_sets`: every op of the set is inserted
\* in op_map under its name (HashMap::insert replaces an entry of the same
\* name), and the set is declared to the extension
create_runtime_ops ==
    /\ bridgePc = "ops"
    /\ setIdx <= NumOpSets
    /\ LET set == op_sets[setIdx] IN
         /\ op_map' = [n \in OpNames |-> IF n \in set THEN setIdx ELSE op_map[n]]
         /\ replaced' = replaced \cup {n \in set : op_map[n] # 0}
         /\ ext_ops' = ext_ops \o [i \in 1..Cardinality(set) |->
                                      OpDecl(SetToSeq(set)[i], setIdx)]
    /\ setIdx' = setIdx + 1
    /\ bridgePc' = IF setIdx = NumOpSets THEN "build" ELSE "ops"
    /\ UNCHANGED <<httpVars, sceneVars, hostVars, mailboxVars, op_sets, runtime_ops,
                   SceneJsFileContent, enable_know_env, required, requireCount>>

\* :83-:90 the middleware: an op whose name is in op_map takes the
\* implementation stored there
middleware(op) ==
    IF op.name \in OpNames /\ op_map[op.name] # 0
    THEN OpDecl(op.name, op_map[op.name])
    ELSE op

\* :75-:98 the extension is built and JsRuntime::new collects its ops; a
\* build with debug assertions panics on ops with duplicate names, a release
\* build does not look.  :174 the scene code is put in the op state.
create_runtime_build ==
    /\ bridgePc = "build"
    /\ \E debug_assertions \in BOOLEAN :
         IF debug_assertions /\ DuplicateNames(ext_ops) # {}
         THEN /\ bridgePc' = "panic_duplicate_ops"
              /\ UNCHANGED <<runtime_ops, SceneJsFileContent>>
         ELSE /\ bridgePc' = "runtime"
              /\ runtime_ops' = [i \in 1..Len(ext_ops) |-> middleware(ext_ops[i])]
              /\ SceneJsFileContent' = "Some"
    /\ UNCHANGED <<httpVars, sceneVars, hostVars, mailboxVars, op_sets, setIdx, op_map,
                   ext_ops, enable_know_env, required, requireCount, replaced>>

\* :375-:400 the modules whose source is a file included in the binary
IncludedModules ==
    [m \in {"~utils.js", "~system/CommunicationsController",
            "~system/EngineApi", "~system/EnvironmentApi",
            "~system/EthereumController", "~system/Players",
            "~system/PortableExperiences", "~system/RestrictedActions",
            "fetch", "ws", "~system/Runtime", "~system/Scene",
            "~system/SignedFetch", "~system/Testing",
            "~system/UserActionModule", "~system/UserIdentity",
            "~system/CommsApi"} |->
        CASE m = "~utils.js" -> "js_modules/utils.js"
          [] m = "~system/CommunicationsController" ->
                "js_modules/CommunicationsController.js"
          [] m = "~system/EngineApi" -> "js_modules/EngineApi.js"
          [] m = "~system/EnvironmentApi" -> "js_modules/EnvironmentApi.js"
          [] m = "~system/EthereumController" -> "js_modules/EthereumController.js"
          [] m = "~system/Players" -> "js_modules/Players.js"
          [] m = "~system/PortableExperiences" -> "js_modules/PortableExperiences.js"
          [] m = "~system/RestrictedActions" -> "js_modules/RestrictedActions.js"
          [] m = "fetch" -> "js_modules/fetch.js"
          [] m = "ws" -> "js_modules/ws.js"
          [] m = "~system/Runtime" -> "js_modules/Runtime.js"
          [] m = "~system/Scene" -> "js_modules/Scene.js"
          [] m = "~system/SignedFetch" -> "js_modules/SignedFetch.js"
          [] m = "~system/Testing" -> "js_modules/Testing.js"
          [] m = "~system/UserActionModule" -> "js_modules/UserActionModule.js"
          [] m = "~system/UserIdentity" -> "js_modules/UserIdentity.js"
          [] m = "~system/CommsApi" -> "js_modules/CommsApi.js"]

\* :372-:401 the names op_require has an arm for
ModuleNames == DOMAIN IncludedModules \cup {"~scene.js", "env"}

\* :460-:468 get_env_for_scene
get_env_for_scene(know_env) ==
    IF know_env THEN "module.exports = {\"enable_know_env\":true,\"testing_enable\":true}"
                ELSE "module.exports = {}"

\* :162 the text of the main script, kept as SceneJsFileContent
scene_code == "scene.js"

\* :367-:406 op_require(state, module_spec): the result, and whether the scene
\* code is still in the op state.  OpState::take panics when the slot is
\* empty.
op_require_result(js_slot, know_env, module_spec) ==
    CASE module_spec = "~scene.js" ->
            IF js_slot = "Some"
            THEN [kind |-> "Ok", source |-> scene_code, slot |-> "None"]
            ELSE [kind |-> "panic", source |-> "", slot |-> js_slot]
      [] module_spec \in DOMAIN IncludedModules ->
            [kind |-> "Ok", source |-> IncludedModules[module_spec],
             slot |-> js_slot]
      [] module_spec = "env" ->
            [kind |-> "Ok", source |-> get_env_for_scene(know_env),
             slot |-> js_slot]
      [] OTHER ->
            [kind |-> "Err", source |-> "", slot |-> js_slot]

\* the names the scripts of the model require
RequireInputs == {"~scene.js", "env", "~utils.js", "~system/EngineApi", "fs",
                  "~system/Nope", "./scene.js"}

\* a script calls require(module_spec), which calls op_require
op_require(module_spec) ==
    /\ bridgePc = "runtime"
    /\ requireCount < MaxRequires
    /\ LET res == op_require_result(SceneJsFileContent, enable_know_env,
                                    module_spec) IN
         /\ required' = [module_spec |-> module_spec, kind |-> res.kind,
                         source |-> res.source]
         /\ SceneJsFileContent' = res.slot
         /\ bridgePc' = IF res.kind = "panic" THEN "panic_take" ELSE "runtime"
    /\ requireCount' = requireCount + 1
    /\ UNCHANGED <<httpVars, sceneVars, hostVars, mailboxVars, op_sets, setIdx, op_map,
                   ext_ops, runtime_ops, enable_know_env, replaced>>

BridgeNext ==
    \/ create_runtime_ops
    \/ create_runtime_build
    \/ \E module_spec \in RequireInputs : op_require(module_spec)

(***************************************************************************)
(* DclScene::spawn_new_js_dcl_scene (dcl/mod.rs: lines 88-126) and the     *)
(* renderer-to-scene channel it makes                                      *)
(***************************************************************************)
Scenes == 1..NumScenes

\* RendererResponse (dcl/mod.rs :49-:53)
RendererResponses == {"Ok", "Kill"}

MailboxInit ==
    /\ scenes = {}
    /\ capacity = [s \in Scenes |-> 0]
    /\ mailbox = [s \in Scenes |-> <<>>]
    /\ senderPc = [s \in Scenes |-> "idle"]
    /\ sending = [s \in Scenes |-> "None"]
    /\ accepted = [s \in Scenes |-> 0]
    /\ received = [s \in Scenes |-> 0]

\* a faulty variant, for comparison: a channel that buffers two messages
spawn_new_js_dcl_scene_DepthTwo(id) ==
    /\ id \notin scenes
    /\ scenes' = scenes \cup {id}
    /\ capacity' = [capacity EXCEPT ![id] = 2]
    /\ UNCHANGED <<httpVars, sceneVars, hostVars, bridgeVars, mailbox, senderPc, sending,
                   accepted, received>>

\* :96-:97 tokio::sync::mpsc::channel::<RendererResponse>(1): every scene gets
\* a channel of its own; the sender is kept in DclScene, the receiver goes to
\* the scene thread
spawn_new_js_dcl_scene(id) ==
    /\ id \notin scenes
    /\ scenes' = scenes \cup {id}
    /\ capacity' = [capacity EXCEPT ![id] = 1]
    /\ UNCHANGED <<httpVars, sceneVars, hostVars, bridgeVars, mailbox, senderPc, sending,
                   accepted, received>>

\* the renderer calls main_sender_to_thread.send(msg) of scene s
main_send_begin(s, msg) ==
    /\ s \in scenes
    /\ senderPc[s] = "idle"
    /\ accepted[s] < MaxMessages
    /\ senderPc' = [senderPc EXCEPT ![s] = "sending"]
    /\ sending' = [sending EXCEPT ![s] = msg]
    /\ UNCHANGED <<httpVars, sceneVars, hostVars, bridgeVars, scenes, capacity, mailbox,
                   accepted, received>>

\* the send completes when the channel of s has room
main_send_complete(s) ==
    /\ senderPc[s] = "sending"
    /\ Len(mailbox[s]) < capacity[s]
    /\ mailbox' = [mailbox EXCEPT ![s] = Append(@, sending[s])]
    /\ senderPc' = [senderPc EXCEPT ![s] = "idle"]
    /\ sending' = [sending EXCEPT ![s] = "None"]
    /\ accepted' = [accepted EXCEPT ![s] = @ + 1]
    /\ UNCHANGED <<httpVars, sceneVars, hostVars, bridgeVars, scenes, capacity, received>>

\* the scene thread of s receives from thread_receive_from_main
thread_receive(s) ==
    /\ mailbox[s] # <<>>
    /\ mailbox' = [mailbox EXCEPT ![s] = Tail(@)]
    /\ received' = [received EXCEPT ![s] = @ + 1]
    /\ UNCHANGED <<httpVars, sceneVars, hostVars, bridgeVars, scenes, capacity, senderPc,
                   sending, accepted>>

MailboxNext ==
    \E s \in Scenes :
        \/ spawn_new_js_dcl_scene(s)
        \/ \E msg \in RendererResponses : main_send_begin(s, msg)
        \/ main_send_complete(s)
        \/ thread_receive(s)

(***************************************************************************)
(* Claims about the channels, the modules and the ops                      *)
(***************************************************************************)
\* C17: the channel of every scene holds at most one message that was not
\* received; while it holds one, a send to that scene does not complete; and
\* a send in progress to another scene, whose channel is empty, can complete
\* whatever the state of the first.
C17_MailboxDepthOne ==
    \A s \in scenes :
        /\ Len(mailbox[s]) <= 1
        /\ accepted[s] - received[s] <= 1
        /\ (Len(mailbox[s]) = 1 /\ senderPc[s] = "sending")
              => ~ENABLED main_send_complete(s)
        /\ \A t \in scenes \ {s} :
              (Len(mailbox[s]) = 1 /\ senderPc[s] = "sending"
                 /\ senderPc[t] = "sending" /\ mailbox[t] = <<>>)
                 => ENABLED main_send_complete(t)

\* the renderer is held in a second send to scene 1, whose mailbox is full,
\* while scene 2 has received a message and accepted the next
C17_Witness ==
    /\ scenes = Scenes
    /\ Len(mailbox[1]) = 1 /\ senderPc[1] = "sending" /\ received[1] = 0
    /\ received[2] = 1 /\ Len(mailbox[2]) = 1

\* C19 as claimed: a require of a name outside the names op_require knows
\* fails with the invalid-module error and returns no source; a require of a
\* name inside them returns the source of that module.
C19_RequireClosedAllowList ==
    required.module_spec # "" =>
        IF required.module_spec \in ModuleNames
        THEN /\ required.kind = "Ok"
             /\ required.source =
                  CASE required.module_spec = "~scene.js" -> scene_code
                    [] required.module_spec = "env" ->
                          get_env_for_scene(enable_know_env)
                    [] OTHER -> IncludedModules[required.module_spec]
        ELSE /\ required.kind = "Err"
             /\ required.source = ""

\* two op sets declare an op of the same name
DuplicateSupplied ==
    \E i, j \in 1..NumOpSets : i # j /\ op_sets[i] \cap op_sets[j] # {}

\* C20 as claimed: when two bindings are supplied under the same name, the
\* assembly ends with a registration error: no runtime is built in which a
\* later binding has replaced an earlier one of the same name.
C20_DuplicateBindingRejected ==
    DuplicateSupplied => runtime_ops = <<>>

(***************************************************************************)
(* RpcResultSender: common/rpc.rs lines 20-44.  One oneshot sender behind  *)
(* a lock, shared by the clones of the handle.                             *)
(***************************************************************************)
RpcHandles == 1..NumRpcClones
RpcValues == {"a", "b"}

\* :24-:26 new(): the slot holds the oneshot sender; nothing was called yet
RpcNew ==
    /\ rpc_slot = "Some"
    /\ rpc_taken = {}
    /\ rpc_receiver_gone = FALSE
    /\ rpc_delivered = <<>>
    /\ rpcPc = [h \in RpcHandles |-> "ready"]
    /\ rpc_log = <<>>

RpcInit == RpcNew

\* oneshot::Sender::send: the value reaches the receiver unless the receiver
\* was dropped
oneshot_outcome == IF rpc_receiver_gone THEN "receiver_gone" ELSE "delivered"

RpcCalled(op, h, v, outcome) ==
    rpc_log' = Append(rpc_log, [op |-> op, handle |-> h, value |-> v,
                                outcome |-> outcome])

\* a faulty variant, for comparison: send() leaves the sender in the slot
rpc_send_SlotKept(h, v) ==
    /\ rpcPc[h] = "ready"
    /\ Len(rpc_log) < MaxRpcOps
    /\ IF rpc_slot = "Some"
       THEN /\ rpc_delivered' = IF rpc_receiver_gone THEN rpc_delivered
                                ELSE Append(rpc_delivered, v)
            /\ RpcCalled("send", h, v, oneshot_outcome)
       ELSE /\ RpcCalled("send", h, v, "noop")
            /\ UNCHANGED rpc_delivered
    /\ UNCHANGED <<httpVars, sceneVars, bridgeVars, mailboxVars, commsVars,
                   rpc_slot, rpc_taken, rpc_receiver_gone, rpcPc>>

\* :28-:34 send(): under the write lock, guard.take() empties the slot; the
\* sender found there is given the value, and its result is discarded.  An
\* empty slot makes the call do nothing.
rpc_send(h, v) ==
    /\ rpcPc[h] = "ready"
    /\ Len(rpc_log) < MaxRpcOps
    /\ IF rpc_slot = "Some"
       THEN /\ rpc_slot' = "None"
            /\ rpc_delivered' = IF rpc_receiver_gone THEN rpc_delivered
                                ELSE Append(rpc_delivered, v)
            /\ RpcCalled("send", h, v, oneshot_outcome)
       ELSE /\ RpcCalled("send", h, v, "noop")
            /\ UNCHANGED <<rpc_slot, rpc_delivered>>
    /\ UNCHANGED <<httpVars, sceneVars, bridgeVars, mailboxVars, commsVars,
                   rpc_taken, rpc_receiver_gone, rpcPc>>

\* :36-:43 take(): under the write lock, guard.take() empties the slot; the
\* lock is released, then unwrap() returns the sender found, or panics on
\* the calling thread when the slot was empty.
rpc_take(h) ==
    /\ rpcPc[h] = "ready"
    /\ Len(rpc_log) < MaxRpcOps
    /\ IF rpc_slot = "Some"
       THEN /\ rpc_slot' = "None"
            /\ rpc_taken' = rpc_taken \cup {h}
            /\ RpcCalled("take", h, "", "taken")
            /\ UNCHANGED rpcPc
       ELSE /\ rpcPc' = [rpcPc EXCEPT ![h] = "panic"]
            /\ RpcCalled("take", h, "", "panic")
            /\ UNCHANGED <<rpc_slot, rpc_taken>>
    /\ UNCHANGED <<httpVars, sceneVars, bridgeVars, mailboxVars, commsVars,
                   rpc_receiver_gone, rpc_delivered>>

\* the caller of take() uses the oneshot sender it was given: :40 hands the
\* sender over by value, send consumes it
taken_send(h, v) ==
    /\ rpcPc[h] = "ready"
    /\ h \in rpc_taken
    /\ Len(rpc_log) < MaxRpcOps
    /\ rpc_taken' = rpc_taken \ {h}
    /\ rpc_delivered' = IF rpc_receiver_gone THEN rpc_delivered
                        ELSE Append(rpc_delivered, v)
    /\ RpcCalled("taken_send", h, v, oneshot_outcome)
    /\ UNCHANGED <<httpVars, sceneVars, bridgeVars, mailboxVars, commsVars,
                   rpc_slot, rpc_receiver_gone, rpcPc>>

\* the thread awaiting the reply gives up: the oneshot receiver is dropped
rpc_receiver_drop ==
    /\ ~rpc_receiver_gone
    /\ rpc_delivered = <<>>
    /\ rpc_receiver_gone' = TRUE
    /\ UNCHANGED <<httpVars, sceneVars, bridgeVars, mailboxVars, commsVars,
                   rpc_slot, rpc_taken, rpc_delivered, rpcPc, rpc_log>>

RpcNext ==
    \/ \E h \in RpcHandles, v \in RpcValues : rpc_send(h, v)
    \/ \E h \in RpcHandles : rpc_take(h)
    \/ \E h \in RpcHandles, v \in RpcValues : taken_send(h, v)
    \/ rpc_receiver_drop

(***************************************************************************)
(* Claims about RpcResultSender                                            *)
(***************************************************************************)
\* the calls that consume the slot: send and take
Consumes(i) == rpc_log[i].op \in {"send", "take"}

\* call i comes after an earlier consumption of the slot
SecondConsumption(i) ==
    /\ Consumes(i)
    /\ \E j \in 1..(i - 1) : Consumes(j)

\* C21: consuming the single-use reply slot a second time, by send or take,
\* on the same handle or on a clone, fails explicitly: the call reports an
\* error, and the calling thread is not aborted.
C21_SecondConsumptionFailsExplicitly ==
    /\ \A i \in 1..Len(rpc_log) :
           SecondConsumption(i) => rpc_log[i].outcome = "error"
    /\ \A h \in RpcHandles : rpcPc[h] # "panic"

\* C27: over all clones and every interleaving of send calls, at most one
\* value is delivered: the first send to consume the slot hands its value to
\* the receiver (if the receiver is still there), every later send does
\* nothing, and a delivered value is never replaced or followed by another.
C27_AtMostOneValueDelivered ==
    /\ [](/\ Len(rpc_delivered) <= 1
          /\ \A i \in 1..Len(rpc_log) :
                 rpc_log[i].op = "send" =>
                     IF SecondConsumption(i)
                     THEN rpc_log[i].outcome = "noop"
                     ELSE /\ rpc_log[i].outcome \in {"delivered", "receiver_gone"}
                          /\ rpc_log[i].outcome = "delivered"
                                 => rpc_delivered = <<rpc_log[i].value>>)
    /\ [][rpc_delivered # <<>> => rpc_delivered' = rpc_delivered]_vars

\* two clones have called send with different values, and the receiver holds
\* the first one
C27_Witness ==
    /\ Len(rpc_log) >= 2
    /\ rpc_log[1].op = "send" /\ rpc_log[2].op = "send"
    /\ rpc_log[1].handle # rpc_log[2].handle
    /\ rpc_log[1].value # rpc_log[2].value
    /\ rpc_delivered = <<rpc_log[1].value>>

(***************************************************************************)
(* CommunicationManager: comms/communication_manager.rs.  Every method     *)
(* runs on the engine's main thread, one call at a time.                   *)
(***************************************************************************)
\* adapter descriptors, as the pieces str::split_once(':') looks at
Descriptors ==
    { <<"ws-room", ":", "addr">>,
      <<"livekit", ":", "addr">>,
      <<"signed-login", ":", "https", ":", "//login">>,
      <<"signed-login", ":", "not a uri">>,
      <<"offline", ":", "offline">>,
      <<"offline">>,
      <<"other", ":", "addr">> }

\* String::default()
EmptyStr == <<>>

\* str::split_once(':'): the text before the first ':' and the text after
\* it, or None when there is no ':'
split_once(str) ==
    LET colons == {i \in 1..Len(str) : str[i] = ":"} IN
    IF colons = {} THEN [some |-> FALSE, protocol |-> <<>>, comms_address |-> <<>>]
    ELSE LET i == CHOOSE k \in colons : \A m \in colons : k <= m IN
         [some |-> TRUE,
          protocol |-> SubSeq(str, 1, i - 1),
          comms_address |-> SubSeq(str, i + 1, Len(str))]

\* Uri::try_from(comms_address) is Ok
UriOk(comms_address) == comms_address = <<"https", ":", "//login">>

\* :20-:25 enum CommsConnection
ConnNone ==
    [state |-> "None", adapter_url |-> EmptyStr, adapter |-> "",
     completed |-> "no"]
WaitingForIdentity(adapter_url) ==
    [state |-> "WaitingForIdentity", adapter_url |-> adapter_url,
     adapter |-> "", completed |-> "no"]
\* completed: whether poll() has returned Complete on this login, and with
\* or without a fixed adapter; on a Connected adapter, "poll_failed" once its
\* poll() has reported failure
SignedLogin(completed) ==
    [state |-> "SignedLogin", adapter_url |-> EmptyStr, adapter |-> "",
     completed |-> completed]
Connected(adapter) ==
    [state |-> "Connected", adapter_url |-> EmptyStr, adapter |-> adapter,
     completed |-> "no"]

\* Option<String>
NoString == [some |-> FALSE, v |-> EmptyStr]
SomeString(v) == [some |-> TRUE, v |-> v]

\* SignedLoginPollStatus, with the fixed_adapter of a Complete response
SignedLoginPollStatus ==
    {[status |-> "Pending", fixed_adapter |-> NoString],
     [status |-> "Error", fixed_adapter |-> NoString],
     [status |-> "Complete", fixed_adapter |-> NoString]}
    \cup {[status |-> "Complete", fixed_adapter |-> SomeString(d)] :
              d \in {<<"ws-room", ":", "addr">>, <<"offline", ":", "offline">>}}

\* :205-:215 _internal_get_comms_from_realm(): None, or the protocol and the
\* optional fixedAdapter
RealmComms ==
    {[some |-> FALSE, comms_protocol |-> "", comms_fixed_adapter |-> NoString],
     [some |-> TRUE, comms_protocol |-> "v2", comms_fixed_adapter |-> NoString]}
    \cup {[some |-> TRUE, comms_protocol |-> "v3", comms_fixed_adapter |-> f] :
              f \in {NoString} \cup {SomeString(d) : d \in Descriptors}}

\* what a call leaves for observation
NotCleaned == [state |-> "n/a", str |-> EmptyStr, adapter_cleans |-> 0]
Call(op, ret, handed, polled, emitted, cleaned) ==
    [op |-> op, ret |-> ret, handed |-> handed, polled |-> polled,
     emitted |-> emitted, cleaned |-> cleaned,
     state_before |-> current_connection.state,
     index_before |-> last_position_broadcast_index,
     identity_before |-> identity_connected,
     arg |-> EmptyStr, poll_ok |-> TRUE, chats |-> FALSE]

\* the same, of a call that ran change_adapter with the descriptor arg
CallWith(op, polled, cleaned, arg) ==
    [Call(op, FALSE, FALSE, polled, FALSE, cleaned) EXCEPT !.arg = arg]

\* :43-:51 init(): no connection, empty descriptor, index 0.  The identity
\* may or may not be connected yet.
CommsNew(identity) ==
    /\ current_connection = ConnNone
    /\ current_connection_str = EmptyStr
    /\ last_position_broadcast_index = 0
    /\ identity_connected = identity
    /\ deferred = <<>>
    /\ lastCall = [op |-> "init", ret |-> FALSE, handed |-> FALSE,
                   polled |-> FALSE, emitted |-> FALSE, cleaned |-> NotCleaned,
                   state_before |-> "None", index_before |-> 0,
                   identity_before |-> identity, arg |-> EmptyStr,
                   poll_ok |-> TRUE, chats |-> FALSE]
    /\ polledAfterComplete = FALSE

CommsInit == \E identity \in BOOLEAN : CommsNew(identity)

\* a faulty variant, for comparison: without an identity the call is dropped
change_adapter_result_NoWaiting(conn, str, comms_fixed_adapter_str, realm_ok) ==
    LET split == split_once(comms_fixed_adapter_str) IN
    IF ~split.some \/ ~identity_connected
    THEN [conn |-> conn, str |-> str]
    ELSE LET protocol == split.protocol IN
         [str |-> comms_fixed_adapter_str,
          conn |->
              IF protocol = <<"ws-room">> THEN Connected("ws-room")
              ELSE IF protocol = <<"signed-login">>
              THEN IF UriOk(split.comms_address) /\ realm_ok
                   THEN SignedLogin("no")
                   ELSE ConnNone
              ELSE IF protocol = <<"livekit">> THEN Connected("livekit")
              ELSE ConnNone]

\* :242-:318 change_adapter(), as the connection and the descriptor it
\* leaves.  realm_ok: Uri::try_from(&realm_url) is Ok.
change_adapter_result(conn, str, comms_fixed_adapter_str, realm_ok) ==
    LET split == split_once(comms_fixed_adapter_str) IN
    IF ~split.some
    THEN \* :245-:249 no ':': a warning, nothing changes
         [conn |-> conn, str |-> str]
    ELSE IF ~identity_connected
    THEN \* :251-:254
         [conn |-> WaitingForIdentity(comms_fixed_adapter_str), str |-> str]
    ELSE \* :256-:257, then :270-:317
         LET protocol == split.protocol IN
         [str |-> comms_fixed_adapter_str,
          conn |->
              IF protocol = <<"ws-room">> THEN Connected("ws-room")
              ELSE IF protocol = <<"signed-login">>
              THEN IF UriOk(split.comms_address) /\ realm_ok
                   THEN SignedLogin("no")
                   ELSE ConnNone
              ELSE IF protocol = <<"livekit">> THEN Connected("livekit")
              ELSE ConnNone]

\* a faulty variant, for comparison: the descriptor survives clean()
clean_result_StrKept(conn, str) ==
    [conn |-> ConnNone, str |-> str,
     adapter_cleans |-> IF conn.state = "Connected" THEN 1 ELSE 0]

\* :320-:332 clean(): adapter.clean() on a Connected adapter, then no
\* connection and the empty descriptor
clean_result(conn, str) ==
    [conn |-> ConnNone, str |-> EmptyStr,
     adapter_cleans |-> IF conn.state = "Connected" THEN 1 ELSE 0]

Cleaned(c) ==
    [state |-> c.conn.state, str |-> c.str, adapter_cleans |-> c.adapter_cleans]

\* a faulty variant, for comparison: an adapter whose poll failed is kept
process_FailureKept(status, ok, chats, realm_ok) ==
    /\ deferred = <<>>
    /\ CASE current_connection.state = "None" ->
              \* :60
              /\ lastCall' = Call("process", FALSE, FALSE, FALSE, FALSE, NotCleaned)
              /\ UNCHANGED <<current_connection, current_connection_str,
                             deferred, polledAfterComplete>>
         [] current_connection.state = "WaitingForIdentity" ->
              \* :61-:66
              /\ deferred' =
                     IF identity_connected
                     THEN Append(deferred,
                                 [method |-> "change_adapter",
                                  arg |-> current_connection.adapter_url])
                     ELSE deferred
              /\ lastCall' = Call("process", FALSE, FALSE, FALSE, FALSE, NotCleaned)
              /\ UNCHANGED <<current_connection, current_connection_str,
                             polledAfterComplete>>
         [] current_connection.state = "SignedLogin" ->
              \* :67-:76
              /\ polledAfterComplete' =
                     (polledAfterComplete \/ current_connection.completed # "no")
              /\ lastCall' =
                     CallWith("process", TRUE, NotCleaned,
                              IF status.status # "Complete" THEN EmptyStr
                              ELSE IF status.fixed_adapter.some
                              THEN status.fixed_adapter.v
                              ELSE <<"offline">>)
              /\ UNCHANGED deferred
              /\ IF status.status = "Pending"
                 THEN UNCHANGED <<current_connection, current_connection_str>>
                 ELSE IF status.status = "Complete"
                 THEN   \* :70 fixed_adapter.unwrap_or("offline".into())
                        LET polled == SignedLogin(IF status.fixed_adapter.some
                                                  THEN "with_fixed_adapter"
                                                  ELSE "without_fixed_adapter")
                            arg == IF status.fixed_adapter.some
                                   THEN status.fixed_adapter.v
                                   ELSE <<"offline">>
                            res == change_adapter_result(
                                       polled, current_connection_str, arg, realm_ok)
                        IN /\ current_connection' = res.conn
                           /\ current_connection_str' = res.str
                 ELSE   \* :72-:75
                        /\ current_connection' = ConnNone
                        /\ UNCHANGED current_connection_str
         [] current_connection.state = "Connected" ->
              \* :77-:100
              /\ LET polled == [current_connection EXCEPT
                                   !.completed = IF ok THEN "no" ELSE "poll_failed"]
                 IN current_connection' = polled
              /\ lastCall' = [Call("process", FALSE, FALSE, TRUE, chats, NotCleaned)
                                 EXCEPT !.poll_ok = ok, !.chats = chats]
              /\ UNCHANGED <<current_connection_str, deferred, polledAfterComplete>>
    /\ UNCHANGED <<httpVars, sceneVars, bridgeVars, mailboxVars, rpcVars,
                   last_position_broadcast_index, identity_connected>>

\* :58-:102 process(): one frame.  The engine has run the deferred calls of
\* the frame before.  status: what signed_login.poll() returns; ok: what
\* adapter.poll() returns; chats: consume_chats() is not empty; realm_ok as
\* in change_adapter.
process(status, ok, chats, realm_ok) ==
    /\ deferred = <<>>
    /\ CASE current_connection.state = "None" ->
              \* :60
              /\ lastCall' = Call("process", FALSE, FALSE, FALSE, FALSE, NotCleaned)
              /\ UNCHANGED <<current_connection, current_connection_str,
                             deferred, polledAfterComplete>>
         [] current_connection.state = "WaitingForIdentity" ->
              \* :61-:66
              /\ deferred' =
                     IF identity_connected
                     THEN Append(deferred,
                                 [method |-> "change_adapter",
                                  arg |-> current_connection.adapter_url])
                     ELSE deferred
              /\ lastCall' = Call("process", FALSE, FALSE, FALSE, FALSE, NotCleaned)
              /\ UNCHANGED <<current_connection, current_connection_str,
                             polledAfterComplete>>
         [] current_connection.state = "SignedLogin" ->
              \* :67-:76
              /\ polledAfterComplete' =
                     (polledAfterComplete \/ current_connection.completed # "no")
              /\ lastCall' =
                     CallWith("process", TRUE, NotCleaned,
                              IF status.status # "Complete" THEN EmptyStr
                              ELSE IF status.fixed_adapter.some
                              THEN status.fixed_adapter.v
                              ELSE <<"offline">>)
              /\ UNCHANGED deferred
              /\ IF status.status = "Pending"
                 THEN UNCHANGED <<current_connection, current_connection_str>>
                 ELSE IF status.status = "Complete"
                 THEN   \* :70 fixed_adapter.unwrap_or("offline".into())
                        LET polled == SignedLogin(IF status.fixed_adapter.some
                                                  THEN "with_fixed_adapter"
                                                  ELSE "without_fixed_adapter")
                            arg == IF status.fixed_adapter.some
                                   THEN status.fixed_adapter.v
                                   ELSE <<"offline">>
                            res == change_adapter_result(
                                       polled, current_connection_str, arg, realm_ok)
                        IN /\ current_connection' = res.conn
                           /\ current_connection_str' = res.str
                 ELSE   \* :72-:75
                        /\ current_connection' = ConnNone
                        /\ UNCHANGED current_connection_str
         [] current_connection.state = "Connected" ->
              \* :77-:100
              \* :79 the adapter after poll(); :82-:95 the chats are emitted;
              \* :97-:99 a failed adapter is dropped
              /\ LET polled == [current_connection EXCEPT
                                   !.completed = IF ok THEN "no" ELSE "poll_failed"]
                 IN current_connection' = IF ok THEN polled ELSE ConnNone
              /\ lastCall' = [Call("process", FALSE, FALSE, TRUE, chats, NotCleaned)
                                 EXCEPT !.poll_ok = ok, !.chats = chats]
              /\ UNCHANGED <<current_connection_str, deferred, polledAfterComplete>>
    /\ UNCHANGED <<httpVars, sceneVars, bridgeVars, mailboxVars, rpcVars,
                   last_position_broadcast_index, identity_connected>>

\* a faulty variant, for comparison: the index advances on every call
broadcast_position_and_rotation_AlwaysCounted(sent) ==
    /\ last_position_broadcast_index < MaxBroadcastIndex
    /\ LET message_sent == current_connection.state = "Connected" /\ sent IN
       /\ last_position_broadcast_index' = last_position_broadcast_index + 1
       /\ lastCall' = Call("broadcast_position_and_rotation", message_sent,
                           current_connection.state = "Connected",
                           FALSE, FALSE, NotCleaned)
    /\ UNCHANGED <<httpVars, sceneVars, bridgeVars, mailboxVars, rpcVars,
                   current_connection, current_connection_str,
                   identity_connected, deferred, polledAfterComplete>>

\* :138-:169 broadcast_position_and_rotation(): the packet goes to the
\* adapter only when Connected; sent is what send_rfc4 returns.  The index
\* advances when the message was sent.
broadcast_position_and_rotation(sent) ==
    /\ last_position_broadcast_index < MaxBroadcastIndex
    /\ LET message_sent == current_connection.state = "Connected" /\ sent IN
       /\ last_position_broadcast_index' =
              IF message_sent THEN last_position_broadcast_index + 1
              ELSE last_position_broadcast_index
       /\ lastCall' = Call("broadcast_position_and_rotation", message_sent,
                           current_connection.state = "Connected",
                           FALSE, FALSE, NotCleaned)
    /\ UNCHANGED <<httpVars, sceneVars, bridgeVars, mailboxVars, rpcVars,
                   current_connection, current_connection_str,
                   identity_connected, deferred, polledAfterComplete>>

\* :171-:186 send_chat(): false unless Connected, else what send_rfc4
\* returns
send_chat(sent) ==
    /\ lastCall' = Call("send_chat",
                        current_connection.state = "Connected" /\ sent,
                        current_connection.state = "Connected",
                        FALSE, FALSE, NotCleaned)
    /\ UNCHANGED <<httpVars, sceneVars, bridgeVars, mailboxVars, rpcVars,
                   current_connection, current_connection_str,
                   last_position_broadcast_index, identity_connected,
                   deferred, polledAfterComplete>>

\* :199-:203 _on_realm_changed(): the signal handler defers the work
_on_realm_changed ==
    /\ Len(deferred) < MaxDeferred
    /\ deferred' = Append(deferred, [method |-> "_on_realm_changed_deferred",
                                     arg |-> EmptyStr])
    /\ lastCall' = Call("_on_realm_changed", FALSE, FALSE, FALSE, FALSE, NotCleaned)
    /\ UNCHANGED <<httpVars, sceneVars, bridgeVars, mailboxVars, rpcVars,
                   current_connection, current_connection_str,
                   last_position_broadcast_index, identity_connected,
                   polledAfterComplete>>

\* :217-:240 _on_realm_changed_deferred(), run from the deferred calls:
\* clean(), then change_adapter() when the realm has v3 comms with a fixed
\* adapter
_on_realm_changed_deferred(comms, realm_ok) ==
    /\ deferred # <<>>
    /\ Head(deferred).method = "_on_realm_changed_deferred"
    /\ deferred' = Tail(deferred)
    /\ LET c == clean_result(current_connection, current_connection_str)
           res == IF comms.some /\ comms.comms_protocol = "v3"
                     /\ comms.comms_fixed_adapter.some
                  THEN change_adapter_result(c.conn, c.str,
                                             comms.comms_fixed_adapter.v, realm_ok)
                  ELSE [conn |-> c.conn, str |-> c.str]
       IN /\ current_connection' = res.conn
          /\ current_connection_str' = res.str
          /\ lastCall' =
                 CallWith("_on_realm_changed_deferred", FALSE, Cleaned(c),
                          IF comms.some /\ comms.comms_protocol = "v3"
                             /\ comms.comms_fixed_adapter.some
                          THEN comms.comms_fixed_adapter.v
                          ELSE EmptyStr)
    /\ UNCHANGED <<httpVars, sceneVars, bridgeVars, mailboxVars, rpcVars,
                   last_position_broadcast_index, identity_connected,
                   polledAfterComplete>>

\* :242-:318 change_adapter(), run from the deferred calls (:63-:64)
change_adapter(realm_ok) ==
    /\ deferred # <<>>
    /\ Head(deferred).method = "change_adapter"
    /\ deferred' = Tail(deferred)
    /\ LET res == change_adapter_result(current_connection, current_connection_str,
                                        Head(deferred).arg, realm_ok)
       IN /\ current_connection' = res.conn
          /\ current_connection_str' = res.str
    /\ lastCall' = CallWith("change_adapter", FALSE, NotCleaned, Head(deferred).arg)
    /\ UNCHANGED <<httpVars, sceneVars, bridgeVars, mailboxVars, rpcVars,
                   last_position_broadcast_index, identity_connected,
                   polledAfterComplete>>

\* :347-:353 disconnect(): clean(), and the identity is logged out when
\* sign_out_session is set
disconnect(sign_out_session) ==
    /\ LET c == clean_result(current_connection, current_connection_str) IN
       /\ current_connection' = c.conn
       /\ current_connection_str' = c.str
       /\ lastCall' = Call("disconnect", FALSE, FALSE, FALSE, FALSE, Cleaned(c))
    /\ identity_connected' = (identity_connected /\ ~sign_out_session)
    /\ UNCHANGED <<httpVars, sceneVars, bridgeVars, mailboxVars, rpcVars,
                   last_position_broadcast_index, deferred, polledAfterComplete>>

\* the player's identity becomes connected
identity_connects ==
    /\ ~identity_connected
    /\ identity_connected' = TRUE
    /\ UNCHANGED <<httpVars, sceneVars, bridgeVars, mailboxVars, rpcVars,
                   current_connection, current_connection_str,
                   last_position_broadcast_index, deferred, lastCall,
                   polledAfterComplete>>

\* :355-:358 get_current_adapter_conn_str()
get_current_adapter_conn_str == current_connection_str

CommsNext ==
    \/ \E status \in SignedLoginPollStatus, ok \in BOOLEAN, chats \in BOOLEAN,
          realm_ok \in BOOLEAN : process(status, ok, chats, realm_ok)
    \/ \E sent \in BOOLEAN : broadcast_position_and_rotation(sent)
    \/ \E sent \in BOOLEAN : send_chat(sent)
    \/ _on_realm_changed
    \/ \E comms \in RealmComms, realm_ok \in BOOLEAN :
           _on_realm_changed_deferred(comms, realm_ok)
    \/ \E realm_ok \in BOOLEAN : change_adapter(realm_ok)
    \/ \E sign_out_session \in BOOLEAN : disconnect(sign_out_session)
    \/ identity_connects

(***************************************************************************)
(* Claims about CommunicationManager                                       *)
(***************************************************************************)
SendCalls == {"send_chat", "broadcast_position_and_rotation"}

\* this step is a position broadcast that the adapter reports as sent
BroadcastSentStep ==
    /\ lastCall' # lastCall
    /\ lastCall'.op = "broadcast_position_and_rotation"
    /\ lastCall'.ret

\* C28: send_chat and broadcast_position_and_rotation return false and hand
\* no packet to an adapter unless the state is Connected;
\* last_position_broadcast_index grows by exactly one with each position
\* broadcast the adapter reports as sent, and no other step changes it.
C28_SendsOnlyWhenConnected ==
    /\ [](lastCall.op \in SendCalls /\ lastCall.state_before # "Connected"
              => ~lastCall.ret /\ ~lastCall.handed)
    /\ [][last_position_broadcast_index' =
              IF BroadcastSentStep THEN last_position_broadcast_index + 1
              ELSE last_position_broadcast_index]_vars

\* a position broadcast was sent, and a later one, made without a
\* connection, was refused
C28_Witness ==
    /\ last_position_broadcast_index >= 1
    /\ lastCall.op = "broadcast_position_and_rotation"
    /\ lastCall.state_before = "None"
    /\ ~lastCall.ret

CleanCalls == {"disconnect", "_on_realm_changed_deferred"}

\* C29: disconnect and a realm change, from any connection state, leave the
\* state None and the descriptor empty before any new adapter is selected,
\* and call the previous adapter's clean exactly once if the state was
\* Connected, and not at all otherwise.
C29_CleanBeforeNewAdapter ==
    /\ lastCall.op \in CleanCalls =>
           /\ lastCall.cleaned.state = "None"
           /\ lastCall.cleaned.str = EmptyStr
           /\ lastCall.cleaned.adapter_cleans =
                  IF lastCall.state_before = "Connected" THEN 1 ELSE 0
    /\ lastCall.op = "disconnect" =>
           /\ current_connection = ConnNone
           /\ get_current_adapter_conn_str = EmptyStr

\* a realm change found an adapter connected, and has selected a new one
C29_Witness ==
    /\ lastCall.op = "_on_realm_changed_deferred"
    /\ lastCall.state_before = "Connected"
    /\ lastCall.cleaned.adapter_cleans = 1
    /\ current_connection.state = "Connected"

\* a disconnect or a realm change has come in between
Interfered ==
    \/ lastCall.op \in {"disconnect", "_on_realm_changed"}
    \/ \E i \in 1..Len(deferred) :
           deferred[i].method = "_on_realm_changed_deferred"

\* change_adapter was applied to the descriptor d from the deferred calls
AppliedFromWaiting(d) ==
    /\ lastCall.op = "change_adapter"
    /\ lastCall.arg = d
    /\ lastCall.state_before = "WaitingForIdentity"
    /\ current_connection.state # "WaitingForIdentity"

\* C31: change_adapter with a well-formed descriptor and no connected
\* identity leaves the manager in WaitingForIdentity, holding that
\* descriptor, with no adapter; once the identity is connected and process
\* keeps being called, change_adapter is applied with that descriptor and
\* the manager leaves WaitingForIdentity (unless a disconnect or a realm
\* change comes first).
C31_WaitingForIdentityThenApplied ==
    /\ [](/\ lastCall.arg # EmptyStr /\ split_once(lastCall.arg).some
              /\ ~lastCall.identity_before
              => current_connection = WaitingForIdentity(lastCall.arg)
          /\ current_connection.state = "WaitingForIdentity"
              => /\ split_once(current_connection.adapter_url).some
                 /\ current_connection.adapter = "")
    /\ \A d \in Descriptors :
           (current_connection = WaitingForIdentity(d) /\ identity_connected)
               ~> (AppliedFromWaiting(d) \/ Interfered)

\* the identity connected while the manager was waiting, and the descriptor
\* it held has selected the adapter
C31_Witness ==
    /\ AppliedFromWaiting(<<"ws-room", ":", "addr">>)
    /\ current_connection = Connected("ws-room")
    /\ current_connection_str = <<"ws-room", ":", "addr">>

\* C32: whenever the connection state is None, the descriptor returned by
\* get_current_adapter_conn_str is empty: also after an adapter's poll has
\* failed, after a signed-login error, and after a change_adapter that
\* creates no connection.
C32_NoneHasEmptyDescriptor ==
    current_connection.state = "None" => get_current_adapter_conn_str = EmptyStr

\* the latest call was a process() in which the adapter's poll failed
PollFailed ==
    /\ lastCall.op = "process"
    /\ lastCall.state_before = "Connected"
    /\ ~lastCall.poll_ok

\* C33: when the poll of a Connected adapter reports failure, the chats it
\* returned in that process call are still emitted and the state is None at
\* the end of the call; no adapter whose poll has failed is kept, so none
\* is polled or sent to again.
C33_FailedAdapterDropped ==
    /\ PollFailed =>
           /\ lastCall.emitted = lastCall.chats
           /\ current_connection = ConnNone
    /\ ~(/\ current_connection.state = "Connected"
         /\ current_connection.completed = "poll_failed")

\* an adapter's poll failed in a frame in which it returned chats
C33_Witness ==
    /\ PollFailed
    /\ lastCall.chats
    /\ lastCall.emitted
    /\ current_connection.state = "None"

\* C30: when a signed login completes without a fixed adapter, the manager
\* leaves the SignedLogin state, and the completed login is never polled
\* again.
C30_SignedLoginFallsBackToOffline ==
    /\ ~(/\ current_connection.state = "SignedLogin"
         /\ current_connection.completed = "without_fixed_adapter")
    /\ ~polledAfterComplete

(***************************************************************************)
(* Specifications.  The dispatcher and the scene thread share no state:    *)
(* each is explored on its own, the other left in one initial state.       *)
(***************************************************************************)
\* the states in which the other components are left
HttpIdle == HttpNew(1, FALSE)
SceneIdle == SceneArgs("", NoFile, "Some")
BridgeIdle == BridgeArgs([k \in 1..NumOpSets |-> {}], FALSE)
HostIdle == RpcNew /\ CommsNew(FALSE)

Init == HttpInit /\ SceneInit /\ BridgeInit /\ MailboxInit /\ RpcInit /\ CommsInit

Next ==
    \/ HttpNext \/ SceneNext \/ BridgeNext \/ MailboxNext
    \/ RpcNext \/ CommsNext

Spec == Init /\ [][Next]_vars

HttpSpecInit == HttpInit /\ SceneIdle /\ BridgeIdle /\ MailboxInit /\ HostIdle

HttpSpec == HttpSpecInit /\ [][HttpNext]_vars

SceneSpecInit == SceneInit /\ HttpIdle /\ BridgeIdle /\ MailboxInit /\ HostIdle

SceneSpec == SceneSpecInit /\ [][SceneNext]_vars

\* the steps of the scene thread itself
SceneThreadStep ==
    \/ open_main_crdt
    \/ replay_main_crdt
    \/ send_snapshot
    \/ open_main_js
    \/ send_error
    \/ create_runtime
    \/ load_scene
    \/ load_utils
    \/ on_start
    \/ run_async
    \/ loop_start
    \/ tick
    \/ on_update
    \/ update_interrupted
    \/ teardown
    \/ send_removal
    \/ terminate_execution

\* The scene thread runs whenever it is not blocked, and a renderer that holds
\* the receiver keeps receiving.  Nothing is assumed of the thread that
\* requests the termination.
SceneFairSpec ==
    /\ SceneSpecInit /\ [][SceneNext]_vars
    /\ WF_vars(SceneThreadStep)
    /\ WF_vars(renderer_recv)

BridgeSpecInit == BridgeInit /\ HttpIdle /\ SceneIdle /\ MailboxInit /\ HostIdle

BridgeSpec == BridgeSpecInit /\ [][BridgeNext]_vars

MailboxSpecInit == MailboxInit /\ HttpIdle /\ SceneIdle /\ BridgeIdle /\ HostIdle

MailboxSpec == MailboxSpecInit /\ [][MailboxNext]_vars

RpcSpecInit ==
    RpcInit /\ CommsNew(FALSE) /\ HttpIdle /\ SceneIdle /\ BridgeIdle /\ MailboxInit

RpcSpec == RpcSpecInit /\ [][RpcNext]_vars

CommsSpecInit ==
    CommsInit /\ RpcNew /\ HttpIdle /\ SceneIdle /\ BridgeIdle /\ MailboxInit

CommsSpec == CommsSpecInit /\ [][CommsNext]_vars

\* The engine calls process() on every frame and runs the deferred calls of
\* a frame.  Nothing is assumed of the other callers.
CommsFairSpec ==
    /\ CommsSpecInit /\ [][CommsNext]_vars
    /\ WF_vars(\E status \in SignedLoginPollStatus, ok \in BOOLEAN,
                  chats \in BOOLEAN, realm_ok \in BOOLEAN :
                   process(status, ok, chats, realm_ok))
    /\ WF_vars(\E realm_ok \in BOOLEAN : change_adapter(realm_ok))

\* the steps of caller c inside request(), and of the attempt it spawned
CallerStep(c) ==
    \/ request_inspect_send(c)
    \/ request_push(c)
    \/ process_queue(c)
    \/ request_receive(c)

TaskStep(t) ==
    \/ acquire_owned(t)
    \/ queue_pop(t)
    \/ process_request_done(t)
    \/ response_sender_send(t)
    \/ permit_drop(t)

\* The tokio runtime polls every task that is ready, and every network call
\* ends (with a response, an error or the timeout of :190-:195).  Nothing is
\* assumed of the callers' arrival nor of the inspection sink's receiver.
HttpFairSpec ==
    /\ HttpSpecInit /\ [][HttpNext]_vars
    /\ \A c \in Callers : WF_vars(CallerStep(c)) /\ WF_vars(TaskStep(c))

(***************************************************************************)
(* Observations over the history variables                                 *)
(***************************************************************************)
Pushed(c) == c \in SeqToSet(pushOrder)

Resolved(c) == sendCount[c] >= 1

IndexOf(s, x) == CHOOSE i \in 1..Len(s) : s[i] = x

\* a comes before b in s (both are in s)
Before(s, a, b) ==
    /\ a \in SeqToSet(s)
    /\ b \in SeqToSet(s)
    /\ IndexOf(s, a) < IndexOf(s, b)

\* the jobs a dispatch attempt has popped
Popped == {cur[t] : t \in Callers} \ {0}

\* the jobs popped from the queue whose reply is not resolved yet
InFlight == {c \in Popped : ~Resolved(c)}

\* the attempt spawned by caller t served the job of another caller
CrossServed == \E t \in Callers : cur[t] # 0 /\ cur[t] # t

(***************************************************************************)
(* Claims about HttpQueueRequester                                         *)
(***************************************************************************)
\* C1: in every reachable state at most max_parallel_requests jobs have been
\* popped from the queue and not yet had their reply resolved.
C1_InFlightAtMostMaxParallel ==
    Cardinality(InFlight) <= max_parallel_requests

\* the permit pool is exhausted by a job in flight while another attempt waits
C1_Witness ==
    /\ max_parallel_requests = 1
    /\ Cardinality(InFlight) = 1
    /\ \E t \in Callers : taskPc[t] = "acquire"

\* C2 as claimed: with concurrency one, a priority-10 job submitted before a
\* priority-1 job has its reply resolved after the priority-1 job's reply.
C2_Priority1ResolvedFirst ==
    \A a, b \in Callers :
        ( /\ max_parallel_requests = 1
          /\ job[a].priority = 10
          /\ job[b].priority = 1
          /\ Before(pushOrder, a, b)
          /\ Resolved(a) )
        => Before(resolveOrder, b, a)

\* C2 as amended: with concurrency one, a priority-10 job submitted before a
\* priority-1 job has its reply resolved after the priority-1 job's reply,
\* provided the priority-1 job was pushed before the priority-10 job was popped.
C2_Priority1ResolvedFirstIfQueuedAtPop ==
    \A a, b \in Callers :
        ( /\ max_parallel_requests = 1
          /\ job[a].priority = 10
          /\ job[b].priority = 1
          /\ Before(pushOrder, a, b)
          /\ b \in pushedAtPop[a]
          /\ Resolved(a) )
        => Before(resolveOrder, b, a)

\* both jobs were queued before the priority-10 job was popped, and both replied
C2_Witness ==
    \E a, b \in Callers :
        /\ max_parallel_requests = 1
        /\ job[a].priority = 10
        /\ job[b].priority = 1
        /\ Before(pushOrder, a, b)
        /\ b \in pushedAtPop[a]
        /\ Resolved(a)
        /\ Resolved(b)

\* C3: every pop removes a job whose priority value is less than or equal to
\* that of every job in the queue at the moment of the pop.
C3_PopTakesSmallestPriority ==
    [][\A t \in Callers :
          (taskPc[t] = "pop" /\ taskPc'[t] = "net")
          => \A k \in queue : job[cur'[t]].priority <= job[k].priority]_vars

\* a job was popped while a job of strictly greater priority value was queued
C3_Witness ==
    \E t \in Callers :
        /\ taskPc[t] = "net"
        /\ \E k \in queue :
              /\ k \in pushedAtPop[cur[t]]
              /\ job[k].priority > job[cur[t]].priority

\* C4: with max_parallel_requests >= 1, every job pushed by request()
\* eventually has its reply slot resolved, and no reply slot is ever
\* resolved more than once.
C4_EveryPushedJobResolvedOnce ==
    /\ [](\A c \in Callers : sendCount[c] <= 1)
    /\ \A c \in Callers :
          (max_parallel_requests >= 1 /\ Pushed(c)) ~> (sendCount[c] = 1)

\* two jobs shared one permit and both were answered, one by the other's attempt
C4_Witness ==
    /\ max_parallel_requests = 1
    /\ \A c \in Callers : Pushed(c) /\ sendCount[c] = 1
    /\ CrossServed

\* C5: a job whose network call failed with a transport or timeout error is
\* answered with an error carrying the id of its own request descriptor, and
\* no job has more than one network call made for it.
C5_TransportErrorCarriesJobId ==
    \A c \in Callers :
        /\ netCalls[c] <= 1
        /\ (netOutcome[c] = "transport_err" /\ Resolved(c))
           => (reply[c].kind = "Err" /\ reply[c].id = RequestId(c))

\* a transport error answered by the attempt another submission spawned
C5_Witness ==
    \E c \in Callers :
        /\ netOutcome[c] = "transport_err"
        /\ Resolved(c)
        /\ \E t \in Callers : t # c /\ cur[t] = c

\* C6: in parse-as-structured-data mode, a received body that fails to parse
\* gives an overall success whose embedded value is the decode error, never
\* the failure a transport error gives.
C6_ParseFailureInsideSuccess ==
    \A c \in Callers :
        (job[c].response_type = "AsJson" /\ netOutcome[c] = "json_invalid"
            /\ Resolved(c))
        => (reply[c].kind = "Ok" /\ reply[c].response_data = "Json(Err)")

C6_Witness ==
    \E c \in Callers :
        /\ job[c].response_type = "AsJson"
        /\ netOutcome[c] = "json_invalid"
        /\ Resolved(c)

\* C7 as claimed: in stream-to-file mode a failure to create the file or to
\* write the body gives the failure a transport error gives, with the job's
\* id, and a success only follows a fully written body, with the path.
C7_FileFailureIsOverallFailure ==
    \A c \in Callers :
        (job[c].response_type = "ToFile" /\ Resolved(c))
        => /\ netOutcome[c] \in {"create_err", "write_err"}
                => (reply[c].kind = "Err" /\ reply[c].id = RequestId(c))
           /\ reply[c].kind = "Ok"
                => (netOutcome[c] = "written"
                    /\ reply[c].response_data = "ToFile(Ok(path))")

\* C8 as claimed: with inspection enabled, a job a caller submits through
\* request() has its reply resolved whatever the inspection sink does.
C8_ReplyWhateverTheSinkDoes ==
    \A c \in Callers :
        ( /\ inspect_enable
          /\ inspector_sender = "Some"
          /\ max_parallel_requests >= 1
          /\ callerPc[c] # "idle" )
        ~> Resolved(c)

\* the network outcomes that process_request turns into the error result
FailedOutcomes == {"transport_err", "create_err"}

\* C25: the value in a caller's reply slot carries that caller's request id
\* and response type, and is the error result exactly when the network call
\* made for that caller's job failed, whichever attempt popped the job.
C25_ReplyIsOwnRequestOutcome ==
    \A c \in Callers :
        reply[c].kind # "None" =>
            /\ reply[c].id = RequestId(c)
            /\ reply[c].kind = "Ok" => reply[c].response_type = job[c].response_type
            /\ netCalls[c] = 1
            /\ (reply[c].kind = "Err") = (netOutcome[c] \in FailedOutcomes)
            /\ \A t \in Callers :
                   (cur[t] = c /\ taskPc[t] \in {"release", "done"})
                       => reply[c] = response_result[t]

\* each of the two jobs was popped by the attempt the other submission
\* spawned, one call failed and the other did not, and both were answered
C25_Witness ==
    /\ cur[1] = 2 /\ cur[2] = 1
    /\ reply[1].kind = "Ok" /\ reply[1].response_type = "AsJson"
    /\ reply[2].kind = "Err" /\ reply[2].id = RequestId(2)

\* the attempts that were spawned and have not popped yet
UnpoppedAttempts == {t \in Callers : taskPc[t] \in {"acquire", "pop"}}

\* an attempt popped and found the queue empty
FoundEmpty(t) == taskPc[t] \in {"release", "done"} /\ cur[t] = 0

\* C26 as claimed: no attempt finds the queue empty, and the queued jobs never
\* outnumber the spawned attempts that have not popped yet.
C26_QueuedAtMostUnpoppedAttempts ==
    /\ \A t \in Callers : ~FoundEmpty(t)
    /\ Cardinality(queue) <= Cardinality(UnpoppedAttempts)

\* C26 as amended: no attempt finds the queue empty, and the spawned attempts
\* that have not popped yet never outnumber the queued jobs.
C26_UnpoppedAttemptsAtMostQueued ==
    /\ \A t \in Callers : ~FoundEmpty(t)
    /\ Cardinality(UnpoppedAttempts) <= Cardinality(queue)

\* two jobs are queued, one attempt is spawned and holds the permit, the
\* other submission has not spawned its attempt yet
C26_Witness ==
    /\ Cardinality(queue) = 2
    /\ \E t \in Callers : taskPc[t] = "pop" /\ callerPc[t] = "await"
    /\ \E c \in Callers : callerPc[c] = "spawn"

====
